---- MODULE Spec2Model ----
(***************************************************************************)
(* auto-gardener: the expectation resolver, the result history loader and  *)
(* the regression analyzer, as one batch pipeline                          *)
(*   collectTestHistory* ; cleanDuplicateBuilds ;                          *)
(*   findTestsWithInvalidExpectations                                      *)
(* over a results document and a parsed expectation list.                  *)
(*                                                                         *)
(* Strings that the program inspects or orders (path segments) are         *)
(* sequences of one-character strings; enumeration members (TestOutcome,   *)
(* BuildType) and the printed messages are TLA+ strings.                   *)
(***************************************************************************)
EXTENDS Integers, Sequences, FiniteSets, TLC

VARIABLES
    pc,               \* position of main(): "main", "parse", "read", "collect", "report",
                      \* and its ends "done", "usage" (process.exit(1)), "fatal" (uncaught Error)
    argv,             \* process.argv
    console,          \* what main() wrote with console.log and console.error, in order
    expectationFiles, \* the texts of the files of testContext.testExpectationPaths, in order
    warnings,         \* the lines written by console.warn
    error,            \* the message of the uncaught Error that ended the run
    buildType,        \* context.buildType
    allExpectations,  \* TestExpectation[] handed to constructBotTestsResultsFromJson
    resultsJson,      \* the results file: [file, webkitRevision, tests]
    webkitRevisions,  \* number[] most recent first
    testHistories,    \* TestHistory[] collected so far
    report            \* the report lines printed by findTestsWithInvalidExpectations

vars ==
    <<pc, argv, console, expectationFiles, warnings, error, buildType, allExpectations, resultsJson,
      webkitRevisions, testHistories, report>>

----------------------------------------------------------------------------
(* Bounds of the model *)

\* longest revision list of the analyzer inputs
MaxRevisions == 3

\* most run-length pairs in a test's results (analyzer inputs)
MaxPairs == 3

\* length of the long revision lists: 13 is the shortest with three slots past the
\* cut-off of isRevisionOld
LongRevisions == 13

\* longest expectation list of the resolver inputs
MaxExpectations == 2

\* most tests in a results document (resolver inputs)
MaxTests == 2

\* most run-length pairs in a test's results when every outcome letter is drawn
MaxOutcomePairs == 2

\* most lines in an expectation file (parser inputs)
MaxLines == 2

\* most expectation files of a context (priority inputs)
MaxFiles == 2

----------------------------------------------------------------------------
(* Values *)

\* the absent number: null (wasWorkingOnRevision, findFirstPassingRevisionAfter)
\* and undefined (Array.prototype.find without a hit)
NullRevision == -1

NullMessage == "<null>"

TestOutcome ==
    <<"NoData", "Pass", "Failure", "Skip", "WontFix", "Timeout", "ImageOnlyFailure",
      "Slow", "Crash", "Missing", "DumpJSConsoleLogInStdErr">>

\* the numeric value of an enum member
OutcomeNumber(outcome) == (CHOOSE i \in 1..Len(TestOutcome) : TestOutcome[i] = outcome) - 1

BuildType == <<"Debug", "Release">>

\* the expectation of a test that appears in no TestExpectations file
NullExpectation ==
    [lineNo |-> 0, testPath |-> <<>>, bugIds |-> <<>>, expectedOutcomes |-> {},
     buildTypeConstraint |-> "null"]

TestExpectation(lineNo, testPath, bugIds, expectedOutcomes, buildTypeConstraint) ==
    [lineNo |-> lineNo, testPath |-> testPath, bugIds |-> bugIds,
     expectedOutcomes |-> expectedOutcomes, buildTypeConstraint |-> buildTypeConstraint]

----------------------------------------------------------------------------
(* Path and TestExpectation *)

\* faulty variant: only the entries both paths have are compared
equalsOrContainsCommon(this, other) ==
    \A i \in 1..Len(this) : i <= Len(other) => this[i] = other[i]

equalsOrContains(this, other) ==
    \A i \in 1..Len(this) : i <= Len(other) /\ this[i] = other[i]

matchesTest(this, path, type) ==
    /\ equalsOrContains(this.testPath, path)
    /\ (this.buildTypeConstraint = "null" \/ this.buildTypeConstraint = type)

\* faulty variant: Skip in the accepted set is no wildcard
expectedOutcomesHas(this, outcome) == outcome \in this.expectedOutcomes

expectedOutcomesInclude(this, outcome) ==
    outcome \in this.expectedOutcomes \/ "Skip" \in this.expectedOutcomes

----------------------------------------------------------------------------
(* functional-utils *)

Least(S) == CHOOSE x \in S : \A y \in S : x <= y

RECURSIVE maxByLoop(_, _, _)
\* weights[i] is predicate(array[i]); the result is the index of currentMax, 0 for null
maxByLoop(weights, i, currentMax) ==
    IF i > Len(weights) THEN currentMax
    ELSE maxByLoop(weights, i + 1,
                   IF currentMax = 0 \/ weights[i] > weights[currentMax] THEN i ELSE currentMax)

\* faulty variant: of several greatest weights the last one wins
maxByLast(weights) ==
    IF weights = <<>> THEN 0
    ELSE CHOOSE i \in 1..Len(weights) :
             /\ \A j \in 1..Len(weights) : weights[j] <= weights[i]
             /\ \A j \in (i + 1)..Len(weights) : weights[j] < weights[i]

maxBy(weights) == maxByLoop(weights, 1, 0)

\* faulty variant: the first matching expectation, whatever its path length
findFirstMatchingExpectation(expectations, testPath, type) ==
    LET matches == SelectSeq(expectations, LAMBDA e : matchesTest(e, testPath, type))
    IN  IF matches = <<>> THEN NullExpectation ELSE matches[1]

findMostSpecificExpectation(expectations, testPath, type) ==
    LET matches == SelectSeq(expectations, LAMBDA e : matchesTest(e, testPath, type))
        best == maxBy([i \in 1..Len(matches) |-> Len(matches[i].testPath)])
    IN  IF best = 0 THEN NullExpectation ELSE matches[best]

----------------------------------------------------------------------------
(* parse-results-json *)

OutcomeLetters == {"N", "P", "F", "C", "T", "I", "A", "O", "X"}

parseOutcomeString(outcomeString) ==
    CASE outcomeString = "N" -> "NoData"
      [] outcomeString = "P" -> "Pass"
      [] outcomeString = "F" -> "Failure"
      [] outcomeString = "C" -> "Crash"
      [] outcomeString = "T" -> "Timeout"
      [] outcomeString = "I" -> "ImageOnlyFailure"
      [] outcomeString = "A" -> "Failure"
      [] outcomeString = "O" -> "Missing"
      [] outcomeString = "X" -> "Skip"

\* the message of the Error parseOutcomeString throws in the loop over the pairs of a
\* results array: that of the first letter outcomeDict does not have, NullMessage if none
unknownOutcomeString(results) ==
    IF \A i \in 1..Len(results) : results[i][2] \in OutcomeLetters THEN NullMessage
    ELSE "Unknown test outcome string: \""
             \o results[Least({i \in 1..Len(results) : results[i][2] \notin OutcomeLetters})][2]
             \o "\""

\* faulty variant: every run-length pair gives one result, whatever its count
expandResultsOnce(results) ==
    [i \in 1..Len(results) |-> parseOutcomeString(results[i][2])]

RECURSIVE expandResults(_)
\* the outcomes of the run-length pairs [occurrences, outcomeString], in order
expandResults(results) ==
    IF results = <<>> THEN <<>>
    ELSE [i \in 1..Head(results)[1] |-> parseOutcomeString(Head(results)[2])]
             \o expandResults(Tail(results))

\* the TestHistory collectTestHistory pushes for one test of the document
collectTestHistory(expectations, type, revisions, jsonTest) ==
    LET outcomes == expandResults(jsonTest.results)
        kept == IF Len(outcomes) < Len(revisions) THEN Len(outcomes) ELSE Len(revisions)
    IN  [testPath |-> jsonTest.testPath,
         lastResults |-> [i \in 1..kept |->
                             [webkitRevision |-> revisions[i], outcome |-> outcomes[i]]],
         expectation |-> findMostSpecificExpectation(expectations, jsonTest.testPath, type)]

\* faulty variant: of two consecutive equal revisions the older slot is removed
indicesToRemoveOlder(revisions, i, lastRevision) ==
    {j + 1 : j \in {k \in 1..(i - 1) : revisions[k] = revisions[k + 1]}}

RECURSIVE indicesToRemove(_, _, _)
\* the scan of cleanDuplicateBuilds from the oldest slot i down to the newest
indicesToRemove(revisions, i, lastRevision) ==
    IF i < 1 THEN {}
    ELSE (IF revisions[i] = lastRevision THEN {i} ELSE {})
             \cup indicesToRemove(revisions, i - 1, revisions[i])

RECURSIVE filterIndices(_, _, _)
\* array.filter((_, i) => !indicesToRemove.has(i))
filterIndices(array, remove, i) ==
    IF i > Len(array) THEN <<>>
    ELSE (IF i \in remove THEN <<>> ELSE <<array[i]>>) \o filterIndices(array, remove, i + 1)

cleanWebkitRevisions(revisions) ==
    filterIndices(revisions, indicesToRemove(revisions, Len(revisions), NullRevision), 1)

cleanTestHistory(revisions, testHistory) ==
    [testHistory EXCEPT !.lastResults =
        filterIndices(@, indicesToRemove(revisions, Len(revisions), NullRevision), 1)]

----------------------------------------------------------------------------
(* TestHistory *)

\* the index in lastResults of the first result of that revision, 0 for null
getTestResult(this, webkitRevision) ==
    IF \E i \in 1..Len(this.lastResults) : this.lastResults[i].webkitRevision = webkitRevision
    THEN CHOOSE i \in 1..Len(this.lastResults) :
            /\ this.lastResults[i].webkitRevision = webkitRevision
            /\ \A j \in 1..(i - 1) : this.lastResults[j].webkitRevision # webkitRevision
    ELSE 0

\* faulty variant: a Skip result is a usable signal
matchesExpectationSkipIsResult(this, webkitRevision) ==
    LET testResult == getTestResult(this, webkitRevision)
        outcome == this.lastResults[testResult].outcome
    IN  IF testResult = 0 \/ outcome = "NoData" THEN "null"
        ELSE IF this.expectation = NullExpectation
             THEN (IF outcome = "Pass" THEN "true" ELSE "false")
             ELSE (IF expectedOutcomesInclude(this.expectation, outcome) THEN "true" ELSE "false")

\* "true", "false" or "null"
matchesExpectation(this, webkitRevision) ==
    LET testResult == getTestResult(this, webkitRevision)
        outcome == this.lastResults[testResult].outcome
    IN  IF testResult = 0 \/ outcome = "NoData" \/ outcome = "Skip" THEN "null"
        ELSE IF this.expectation = NullExpectation
             THEN (IF outcome = "Pass" THEN "true" ELSE "false")
             ELSE (IF expectedOutcomesInclude(this.expectation, outcome) THEN "true" ELSE "false")

getExpectationWithDefault(this) ==
    IF this.expectation # NullExpectation THEN this.expectation
    ELSE TestExpectation(-1, this.testPath, <<>>, {"Pass"}, "null")

\* RevisionRange: kind is "revision" (start = end), "range", "long ago" or "never failed";
\* nan says that start is NaN (lastGood was undefined)
ExactRevision(revision) == [kind |-> "revision", start |-> revision, end |-> revision, nan |-> FALSE]

Range(start, end, nan) == [kind |-> "range", start |-> start, end |-> end, nan |-> nan]

LongAgo == [kind |-> "long ago", start |-> 0, end |-> 0, nan |-> FALSE]

NeverFailed == [kind |-> "never failed", start |-> 0, end |-> 0, nan |-> FALSE]

\* faulty variant: a known revision above, not below
findNewerRevision(revisions, revision) ==
    IF \E i \in 1..Len(revisions) : revisions[i] > revision
    THEN revisions[CHOOSE i \in 1..Len(revisions) :
                      /\ revisions[i] > revision
                      /\ \A j \in 1..(i - 1) : ~(revisions[j] > revision)]
    ELSE NullRevision

\* faulty variant: the oldest known revision below, not the newest
findOldestRevision(revisions, revision) ==
    IF \E i \in 1..Len(revisions) : revisions[i] < revision
    THEN revisions[CHOOSE i \in 1..Len(revisions) :
                      /\ revisions[i] < revision
                      /\ \A j \in (i + 1)..Len(revisions) : ~(revisions[j] < revision)]
    ELSE NullRevision

\* botTestResults.webkitRevisions.find(rev => rev < revision), NullRevision for undefined
findOlderRevision(revisions, revision) ==
    IF \E i \in 1..Len(revisions) : revisions[i] < revision
    THEN revisions[CHOOSE i \in 1..Len(revisions) :
                      /\ revisions[i] < revision
                      /\ \A j \in 1..(i - 1) : ~(revisions[j] < revision)]
    ELSE NullRevision

\* faulty variant: never the exact revision
reportFailureAlwaysRange(revision, wasWorkingOnRevision) ==
    IF wasWorkingOnRevision = NullRevision THEN Range(0, revision, TRUE)
    ELSE Range(wasWorkingOnRevision + 1, revision, FALSE)

\* faulty variant: the range starts at the last good revision itself
reportFailureFromLastGood(revision, wasWorkingOnRevision) ==
    IF wasWorkingOnRevision = NullRevision THEN Range(0, revision, TRUE)
    ELSE IF revision - wasWorkingOnRevision = 1 THEN ExactRevision(revision)
    ELSE Range(wasWorkingOnRevision, revision, FALSE)

\* "We know the range of the failure, report it appropriately."
reportFailure(revision, wasWorkingOnRevision) ==
    IF wasWorkingOnRevision = NullRevision THEN Range(0, revision, TRUE)
    ELSE IF revision - wasWorkingOnRevision = 1 THEN ExactRevision(revision)
    ELSE Range(wasWorkingOnRevision + 1, revision, FALSE)

\* faulty variant: a first failure of a short history is reported as that exact revision
firstDataIsFailureExact(this, revisions, revision) ==
    IF Len(this.lastResults) >= Len(revisions) THEN LongAgo ELSE ExactRevision(revision)

\* faulty variant: a history exactly as long as the revision list is not "long ago"
firstDataIsFailureStrict(this, revisions, revision) ==
    IF Len(this.lastResults) > Len(revisions) THEN LongAgo
    ELSE reportFailure(revision, findOlderRevision(revisions, revision))

\* "First data we have on the test is already a failure"
firstDataIsFailure(this, revisions, revision) ==
    IF Len(this.lastResults) >= Len(revisions) THEN LongAgo
    ELSE reportFailure(revision, findOlderRevision(revisions, revision))

RECURSIVE firstFailedScan(_, _, _, _)
\* the loop of findFirstFailedRevisionRange at slot i
firstFailedScan(this, revisions, i, wasWorkingOnRevision) ==
    IF i < 1 THEN NeverFailed
    ELSE LET result == this.lastResults[i]
             resultMatchesExpectation == matchesExpectation(this, result.webkitRevision)
         IN  IF resultMatchesExpectation = "false"
             THEN IF wasWorkingOnRevision = NullRevision
                  THEN firstDataIsFailure(this, revisions, result.webkitRevision)
                  ELSE reportFailure(result.webkitRevision, wasWorkingOnRevision)
             ELSE IF resultMatchesExpectation = "true"
                  THEN firstFailedScan(this, revisions, i - 1, result.webkitRevision)
                  ELSE firstFailedScan(this, revisions, i - 1, wasWorkingOnRevision)

\* faulty variant: the newest mismatch is reported, with the next older known revision
\* as last good
findNewestFailedRevisionRange(this, revisions) ==
    IF \A i \in 1..Len(this.lastResults) :
           matchesExpectation(this, this.lastResults[i].webkitRevision) # "false"
    THEN NeverFailed
    ELSE reportFailure(
             this.lastResults[
                 Least({i \in 1..Len(this.lastResults) :
                           matchesExpectation(this, this.lastResults[i].webkitRevision) = "false"})
             ].webkitRevision,
             findOlderRevision(
                 revisions,
                 this.lastResults[
                     Least({i \in 1..Len(this.lastResults) :
                               matchesExpectation(this, this.lastResults[i].webkitRevision) = "false"})
                 ].webkitRevision))

\* faulty variant: the scan starts one slot late and misses the oldest result
findFirstFailedRevisionRangeSkippingOldest(this, revisions) ==
    firstFailedScan(this, revisions, Len(this.lastResults) - 1, NullRevision)

findFirstFailedRevisionRange(this, revisions) ==
    firstFailedScan(this, revisions, Len(this.lastResults), NullRevision)

formatRevisionRangeString(revisionRange) ==
    IF revisionRange.kind \in {"long ago", "never failed"} THEN revisionRange.kind
    ELSE IF revisionRange.kind = "revision" THEN "r" \o ToString(revisionRange.start)
    ELSE "r" \o (IF revisionRange.nan THEN "NaN" ELSE ToString(revisionRange.start))
             \o "-" \o ToString(revisionRange.end)

\* faulty variant: the cut-off slot itself is old
isRevisionOldInclusive(revisions, revision) ==
    LET cutOff == (Len(revisions) * 3) \div 4
    IN  revision <= revisions[cutOff + 1]

isRevisionOld(revisions, revision) ==
    LET cutOff == (Len(revisions) * 3) \div 4
    IN  revision < revisions[cutOff + 1]

RECURSIVE firstPassingScan(_, _, _)
firstPassingScan(this, firstKnownFailedRevision, i) ==
    IF i < 1 THEN NullRevision
    ELSE LET result == this.lastResults[i]
         IN  IF /\ result.webkitRevision > firstKnownFailedRevision
                /\ matchesExpectation(this, result.webkitRevision) = "true"
             THEN result.webkitRevision
             ELSE firstPassingScan(this, firstKnownFailedRevision, i - 1)

\* faulty variant: any matching revision, also one before the failure
findAnyPassingRevision(this, firstKnownFailedRevision) ==
    firstPassingScan(this, NullRevision, Len(this.lastResults))

findFirstPassingRevisionAfter(this, firstKnownFailedRevision) ==
    firstPassingScan(this, firstKnownFailedRevision, Len(this.lastResults))

\* faulty variant: no message for a flaky test
constructFailingMessage(this, revisions) ==
    IF findFirstFailedRevisionRange(this, revisions).kind \in {"long ago", "never failed"}
    THEN NullMessage
    ELSE IF findFirstPassingRevisionAfter(
                this, findFirstFailedRevisionRange(this, revisions).end) \in {NullRevision, 0}
    THEN "Failing since "
             \o formatRevisionRangeString(findFirstFailedRevisionRange(this, revisions))
    ELSE NullMessage

constructFirstFailedRevisionMessage(this, revisions) ==
    LET firstFailedRange == findFirstFailedRevisionRange(this, revisions)
        firstKnownFailedRevision == firstFailedRange.end
        firstPassAfterwards == findFirstPassingRevisionAfter(this, firstKnownFailedRevision)
    IN  IF firstFailedRange.kind \in {"long ago", "never failed"} THEN NullMessage
        ELSE IF firstPassAfterwards = NullRevision \/ firstPassAfterwards = 0
             THEN "Failing since " \o formatRevisionRangeString(firstFailedRange)
             ELSE IF /\ isRevisionOld(revisions, firstKnownFailedRevision)
                     /\ isRevisionOld(revisions, firstPassAfterwards)
                  THEN "Flaky since long ago"
                  ELSE "Flaky since r" \o ToString(firstKnownFailedRevision) \o " or earlier"

----------------------------------------------------------------------------
(* Strings: sequences of one-character strings, ordered as JavaScript orders *)
(* them (by code unit)                                                       *)

CodeOrder ==
    <<" ", "#", ".", "/", "0", "1", "2", "3", "4", "5", "6", "7", "8", "9",
      "A", "B", "C", "D", "E", "F", "G", "H", "I", "J", "K", "L", "M", "N", "O", "P", "Q",
      "R", "S", "T", "U", "V", "W", "X", "Y", "Z", "[", "]",
      "a", "b", "c", "d", "e", "f", "g", "h", "i", "j", "k", "l", "m", "n", "o", "p", "q",
      "r", "s", "t", "u", "v", "w", "x", "y", "z">>

charCode(c) == CHOOSE i \in 1..Len(CodeOrder) : CodeOrder[i] = c

\* a < b on strings
stringLess(a, b) ==
    \E i \in 1..(Len(a) + 1) :
        /\ \A j \in 1..(i - 1) : j <= Len(b) /\ a[j] = b[j]
        /\ i <= Len(b)
        /\ (i > Len(a) \/ charCode(a[i]) < charCode(b[i]))

RECURSIVE join(_, _)
join(entries, separator) ==
    IF entries = <<>> THEN <<>>
    ELSE IF Len(entries) = 1 THEN entries[1]
    ELSE entries[1] \o separator \o join(Tail(entries), separator)

baseName(path) == path[Len(path)]

dirName(path) == join(SubSeq(path, 1, Len(path) - 1), <<"/">>)

\* the values the sort keys hold: a string, a number or +Infinity
StringValue(s) == [type |-> "string", string |-> s, number |-> 0, infinite |-> FALSE]

NumberValue(n) == [type |-> "number", string |-> <<>>, number |-> n, infinite |-> FALSE]

Infinity == [type |-> "number", string |-> <<>>, number |-> 0, infinite |-> TRUE]

\* x < y
valueLess(x, y) ==
    IF x.type = "string" THEN stringLess(x.string, y.string)
    ELSE ~x.infinite /\ (y.infinite \/ x.number < y.number)

RECURSIVE compareArraysLoop(_, _, _)
\* i is the loop index of the source plus one
compareArraysLoop(a, b, i) ==
    IF i > Len(a) THEN 0
    ELSE IF i - 1 > Len(b) THEN 1
    ELSE IF i > Len(b) THEN compareArraysLoop(a, b, i + 1)
    ELSE IF valueLess(b[i], a[i]) THEN 1
    ELSE IF valueLess(a[i], b[i]) THEN -1
    ELSE compareArraysLoop(a, b, i + 1)

compareArrays(a, b) == compareArraysLoop(a, b, 1)

RECURSIVE insertSorted(_, _, _)
\* item goes after the items of the sorted array that do not compare greater
insertSorted(sorted, keys, item) ==
    IF sorted = <<>> THEN <<item>>
    ELSE IF compareArrays(keys[sorted[Len(sorted)]], keys[item]) > 0
         THEN insertSorted(SubSeq(sorted, 1, Len(sorted) - 1), keys, item)
                  \o <<sorted[Len(sorted)]>>
         ELSE sorted \o <<item>>

RECURSIVE sortedIndices(_, _)
\* Array.prototype.sort (stable) over the first n items: the permutation of their indices
sortedIndices(keys, n) ==
    IF n = 0 THEN <<>> ELSE insertSorted(sortedIndices(keys, n - 1), keys, n)

\* sortedBy(items, keyFn), keys[i] being keyFn(items[i])
sortedBy(items, keys) ==
    LET order == sortedIndices(keys, Len(items))
    IN  [k \in 1..Len(items) |-> items[order[k]]]

RECURSIVE groupKeys(_)
\* the keys of the Map groupBy builds, in insertion order
groupKeys(keys) ==
    IF keys = <<>> THEN <<>>
    ELSE LET before == groupKeys(SubSeq(keys, 1, Len(keys) - 1))
             last == keys[Len(keys)]
         IN  IF \E i \in 1..Len(before) : before[i] = last THEN before
             ELSE before \o <<last>>

\* groupBy(items, keyFn), keys[i] being keyFn(items[i]): the entries [key, items] of the Map
groupBy(items, keys) ==
    LET ks == groupKeys(keys)
        positions == [i \in 1..Len(items) |-> i]
    IN  [g \in 1..Len(ks) |->
            [key |-> ks[g],
             items |-> LET at == SelectSeq(positions, LAMBDA i : keys[i] = ks[g])
                       IN  [k \in 1..Len(at) |-> items[at[k]]]]]

----------------------------------------------------------------------------
(* findTestsWithInvalidExpectations *)

\* the outcomes the switch of testOutcomeToColor has a case for
ColoredOutcomes ==
    {"NoData", "Missing", "Skip", "WontFix", "Pass", "Failure", "Crash", "Timeout",
     "ImageOnlyFailure", "Slow"}

\* `${TestOutcome[outcome]} (${outcome})` for a value that is a member, the name of a
\* member (a string), or a property inherited from Object.prototype
outcomeText(outcome) ==
    IF \E i \in 1..Len(TestOutcome) : TestOutcome[i] = outcome
    THEN outcome \o " (" \o ToString(OutcomeNumber(outcome)) \o ")"
    ELSE IF \E i \in 1..Len(TestOutcome) : "string:" \o TestOutcome[i] = outcome
    THEN ToString(CHOOSE n \in 0..(Len(TestOutcome) - 1) :
                      "string:" \o TestOutcome[n + 1] = outcome)
             \o " (" \o SubSeq(outcome, Len("string:") + 1, Len(outcome)) \o ")"
    ELSE "undefined (" \o outcome \o ")"

\* the escape sequence of the colour of an outcome; the default case throws, which is
\* the message of the Error here
testOutcomeToColor(outcome, colorType) ==
    IF outcome \notin ColoredOutcomes THEN "Unexpected outcome: " \o outcomeText(outcome)
    ELSE (IF colorType = "bg" THEN "\\x1b[48;5;" ELSE "\\x1b[38;5;")
         \o (CASE outcome \in {"NoData", "Missing", "Skip", "WontFix"} -> "251m"
               [] outcome = "Pass" -> "34m"
               [] outcome = "Failure" -> "9m"
               [] outcome = "Crash" -> "130m"
               [] outcome = "Timeout" -> "3m"
               [] outcome = "ImageOnlyFailure" -> "27m"
               [] outcome = "Slow" -> "0m")

\* TestExpectation.toString with ToStringMode.WithColors asks testOutcomeToColor for
\* every expected outcome: the message of the Error it throws, NullMessage if none.
\* expectedOutcomes is a set here, so which of several values without colour is met
\* first is not told.
toStringThrows(this) ==
    IF \A outcome \in this.expectedOutcomes : outcome \in ColoredOutcomes THEN NullMessage
    ELSE testOutcomeToColor(CHOOSE outcome \in this.expectedOutcomes :
                                outcome \notin ColoredOutcomes, "bg")

Line(kind, outcome, testPath, text) ==
    [kind |-> kind, outcome |-> outcome, testPath |-> testPath, text |-> text]

\* the line of a test, or the Error toString throws while the line is built
testLine(testHistory, outcome, thrown) ==
    IF thrown # NullMessage THEN Line("throw", outcome, testHistory.testPath, thrown)
    ELSE Line("test", outcome, testHistory.testPath, "")

\* the key that orders the tests of one outcome group
sortKey(testHistory) ==
    LET bugIds == getExpectationWithDefault(testHistory).bugIds
    IN  <<StringValue(dirName(testHistory.testPath)),
          IF bugIds = <<>> \/ bugIds[1] = 0 THEN Infinity ELSE NumberValue(-bugIds[1]),
          StringValue(baseName(testHistory.testPath))>>

RECURSIVE testLines(_, _, _, _)
\* the lines of the tests i.. of the sorted group of one outcome
testLines(outcomeHistories, revisions, outcome, i) ==
    IF i > Len(outcomeHistories) THEN <<>>
    ELSE LET testHistory == outcomeHistories[i]
             failedRevisionMessage == constructFirstFailedRevisionMessage(testHistory, revisions)
         IN  (IF i > 1 /\ dirName(testHistory.testPath) # dirName(outcomeHistories[i - 1].testPath)
              THEN <<Line("separator", outcome, <<>>, "")>> ELSE <<>>)
             \o <<testLine(testHistory, outcome,
                           toStringThrows(getExpectationWithDefault(testHistory)))>>
             \o (IF failedRevisionMessage # NullMessage
                 THEN <<Line("message", outcome, testHistory.testPath, failedRevisionMessage)>>
                 ELSE <<>>)
             \o testLines(outcomeHistories, revisions, outcome, i + 1)

RECURSIVE groupLines(_, _, _)
\* the lines of the outcome groups g.. of the sorted Map entries
groupLines(groups, revisions, g) ==
    IF g > Len(groups) THEN <<>>
    ELSE LET outcome == groups[g].key
             outcomeHistories ==
                 sortedBy(groups[g].items,
                          [i \in 1..Len(groups[g].items) |-> sortKey(groups[g].items[i])])
         IN  (IF outcome = "NoData" THEN <<>>
              ELSE <<Line("group", outcome, <<>>, "Unexpected " \o outcome \o ":")>>
                       \o testLines(outcomeHistories, revisions, outcome, 1)
                       \o <<Line("end", outcome, <<>>, "")>>)
             \o groupLines(groups, revisions, g + 1)

\* faulty variant: a mismatch at any known revision puts the test in the report
testHistoriesEverInvalid(revisions, histories) ==
    SelectSeq(histories,
              LAMBDA history : \E i \in 1..Len(revisions) :
                                   matchesExpectation(history, revisions[i]) = "false")

testHistoriesWithInvalidExpectations(revisions, histories) ==
    SelectSeq(histories, LAMBDA history : matchesExpectation(history, revisions[1]) = "false")

\* the title findTestsWithInvalidExpectations prints at once, then the lines it plans
plannedLines(revisions, histories) ==
    LET invalid == testHistoriesWithInvalidExpectations(revisions, histories)
        testHistoryByOutcome ==
            groupBy(invalid,
                    [i \in 1..Len(invalid) |->
                        invalid[i].lastResults[getTestResult(invalid[i], revisions[1])].outcome])
        sortedGroups ==
            sortedBy(testHistoryByOutcome,
                     [g \in 1..Len(testHistoryByOutcome) |->
                         <<NumberValue(OutcomeNumber(testHistoryByOutcome[g].key))>>])
    IN  <<Line("title", "", <<>>, "Gardening report for " \o ToString(revisions[1]))>>
            \o groupLines(sortedGroups, revisions, 1)

\* the Error thrown while the lines are planned: the first one, NullMessage if none
thrownIn(lines) ==
    IF \A l \in 1..Len(lines) : lines[l].kind # "throw" THEN NullMessage
    ELSE lines[Least({l \in 1..Len(lines) : lines[l].kind = "throw"})].text

\* the planned lines are printed when all are planned: an Error leaves the title alone
printedLines(lines) ==
    IF thrownIn(lines) = NullMessage THEN lines ELSE SubSeq(lines, 1, 1)

\* what findTestsWithInvalidExpectations prints
findTestsWithInvalidExpectations(revisions, histories) ==
    printedLines(plannedLines(revisions, histories))

----------------------------------------------------------------------------
(* parse-expectations *)

dontShowUnexpectedPasses == FALSE

\* the characters of a string, and the string of a sequence of characters
chars(s) == [i \in 1..Len(s) |-> SubSeq(s, i, i)]

RECURSIVE string(_)
string(s) == IF s = <<>> THEN "" ELSE Head(s) \o string(Tail(s))

\* the white space of the inputs (String.prototype.trim and \s agree on it)
Whitespace == {" ", "\t"}

RECURSIVE trimStart(_)
trimStart(s) == IF s # <<>> /\ Head(s) \in Whitespace THEN trimStart(Tail(s)) ELSE s

RECURSIVE trimEnd(_)
trimEnd(s) ==
    IF s # <<>> /\ s[Len(s)] \in Whitespace THEN trimEnd(SubSeq(s, 1, Len(s) - 1)) ELSE s

trim(s) == trimEnd(trimStart(s))

RECURSIVE split(_, _)
\* the piece before the separator at first, then the pieces of what follows it
splitAt(s, separator, first) ==
    <<SubSeq(s, 1, first - 1)>> \o split(SubSeq(s, first + 1, Len(s)), separator)

\* String.prototype.split with a one-character separator
split(s, separator) ==
    IF \A i \in 1..Len(s) : s[i] # separator THEN <<s>>
    ELSE splitAt(s, separator, CHOOSE i \in 1..Len(s) :
                                   s[i] = separator /\ \A j \in 1..(i - 1) : s[j] # separator)

Greatest(S) == CHOOSE x \in S : \A y \in S : x >= y

\* the token of a consume function that found none: null, which is no string
NullToken == <<"null">>

\* line[from..to] is white space only
blank(line, from, to) == \A i \in from..to : line[i] \in Whitespace

\* /(.*?)\s*(\S+)$/ on a trimmed line that is not empty: group 2 is the last word,
\* line[j+1..]; the greedy \s* is the white space before it, line[k+1..j]; the lazy
\* group 1 is what is left, line[1..k].  Such a line always matches, so the throw of
\* consumeWordToken is never reached.
wordMatch(line, j) ==
    <<SubSeq(line, 1, Least({k \in 0..j : blank(line, k + 1, j)})),
      SubSeq(line, j + 1, Len(line))>>

\* faulty variant: the first word is taken, and what follows it is left
firstWordToken(line) ==
    IF line = <<>> THEN <<line, NullToken>>
    ELSE <<trimStart(SubSeq(line,
                            Least({j \in 1..(Len(line) + 1) :
                                      j = Len(line) + 1 \/ line[j] \in Whitespace}),
                            Len(line))),
           SubSeq(line, 1, Least({j \in 1..(Len(line) + 1) :
                                     j = Len(line) + 1 \/ line[j] \in Whitespace}) - 1)>>

\* consumeWordToken after line = line.trim(): the pair [rest of the line, token]
wordToken(line) ==
    IF line = <<>> THEN <<line, NullToken>>
    ELSE wordMatch(line, Greatest({j \in 0..(Len(line) - 1) : j = 0 \/ line[j] \in Whitespace}))

consumeWordToken(line) == wordToken(trim(line))

\* /(.*?)\s*\[\s*([^\]]+?)\s*]$/ on a trimmed line that ends with "]": the "[" of the
\* match is the leftmost one, line[b], with at least one character and no "]" between
\* it and the final "]" (the lazy group 1 is as short as it can be); group 1 is
\* line[1..k], the text before the white space that precedes "["; the greedy \s* after
\* "[" ends before s, as far right as it can; the lazy group 2 is line[s..e], as short
\* as lets white space only follow it.
bracketGroup(line, b, s) ==
    <<SubSeq(line, 1, Least({k \in 0..(b - 1) : blank(line, k + 1, b - 1)})),
      SubSeq(line, s, Least({e \in s..(Len(line) - 1) : blank(line, e + 1, Len(line) - 1)}))>>

\* faulty variant: the white space after "[" is kept in group 2
bracketMatchUntrimmed(line, b) == bracketGroup(line, b, b + 1)

bracketMatch(line, b) ==
    bracketGroup(line, b, Greatest({s \in (b + 1)..(Len(line) - 1) : blank(line, b + 1, s - 1)}))

\* the places of a "[" that can open the trailing bracket
bracketOpens(line) ==
    {b \in 1..(Len(line) - 2) : line[b] = "[" /\ \A i \in (b + 1)..(Len(line) - 1) : line[i] # "]"}

\* consumeBracketedEntityToken after line = line.trim(): the pair [rest of the line,
\* inner text of the trailing bracket]
bracketedEntityToken(line) ==
    IF line = <<>> THEN <<line, NullToken>>
    ELSE IF line[Len(line)] # "]" \/ bracketOpens(line) = {} THEN <<line, NullToken>>
    ELSE bracketMatch(line, Least(bracketOpens(line)))

consumeBracketedEntityToken(line) == bracketedEntityToken(trim(line))

\* the names every object inherits from Object.prototype
ObjectPrototypeKeys ==
    {"constructor", "toString", "toLocaleString", "valueOf", "hasOwnProperty",
     "isPrototypeOf", "propertyIsEnumerable", "__proto__", "__defineGetter__",
     "__defineSetter__", "__lookupGetter__", "__lookupSetter__"}

\* enum[str as keyof typeof enum] on the object TypeScript compiles a numeric enum to:
\* a member name gives the member (its number); the decimal text of a member's number
\* gives the member's name, a string (the reverse mapping); an inherited name gives the
\* inherited property; any other name gives undefined
enumLookup(enum, str) ==
    LET members == 1..Len(enum)
    IN  IF \E i \in members : chars(enum[i]) = str
        THEN enum[CHOOSE i \in members : chars(enum[i]) = str]
        ELSE IF \E i \in members : chars(ToString(i - 1)) = str
        THEN "string:" \o enum[CHOOSE i \in members : chars(ToString(i - 1)) = str]
        ELSE IF \E key \in ObjectPrototypeKeys : chars(key) = str
        THEN "inherited:" \o string(str)
        ELSE "undefined"

\* if (token): neither null nor the empty string
truthy(token) == token # NullToken /\ token # <<>>

Digits == {"0", "1", "2", "3", "4", "5", "6", "7", "8", "9"}

RECURSIVE parseInt(_)
\* parseInt of a run of decimal digits
parseInt(digits) ==
    IF digits = <<>> THEN 0
    ELSE 10 * parseInt(SubSeq(digits, 1, Len(digits) - 1))
             + (CHOOSE d \in 0..9 : ToString(d) = digits[Len(digits)])

\* /^webkit.org\/b\/(\d+)\s*$/ matches the word bugString; the "." is any character
bugMatch(bugString) ==
    /\ Len(bugString) >= 14
    /\ SubSeq(bugString, 1, 6) = chars("webkit")
    /\ SubSeq(bugString, 8, 13) = chars("org/b/")
    /\ \A i \in 14..Len(bugString) : bugString[i] \in Digits

RECURSIVE bugLoop(_, _)
\* one turn of the loop: word is [rest of the line, bugString]
bugStep(word, bugIds) ==
    bugLoop(word[1],
            IF truthy(word[2]) /\ bugMatch(word[2])
            THEN Append(bugIds, parseInt(SubSeq(word[2], 14, Len(word[2]))))
            ELSE bugIds)

\* while (line != "") { consume a word; push its number if it is a bug reference }:
\* the line and the bugIds when the loop ends
bugLoop(line, bugIds) ==
    IF line = <<>> THEN [line |-> line, bugIds |-> bugIds]
    ELSE bugStep(consumeWordToken(line), bugIds)

ParsedLine(kind, expectation, message) ==
    [kind |-> kind, expectation |-> expectation, message |-> message]

\* `${text} at line ${lineNo}: "${quoted}"`
lineMessage(text, lineNo, quoted) ==
    text \o " at line " \o ToString(lineNo) \o ": \"" \o string(quoted) \o "\""

\* the end of the turn: bugs is what the bug loop left
parseBugs(bugs, buildTypeConstraint, testPath, outcomes, lineNo) ==
    IF bugs.line # <<>>
    THEN ParsedLine("error", NullExpectation,
                    lineMessage("Unparsed line contents remain", lineNo, bugs.line))
    ELSE ParsedLine("expectation",
                    TestExpectation(lineNo, testPath, bugs.bugIds, outcomes, buildTypeConstraint),
                    NullMessage)

\* build is [rest of the line, buildTypeConstraintString]
parseBuildType(build, testPath, outcomes, lineNo) ==
    IF truthy(build[2]) /\ enumLookup(BuildType, build[2]) = "undefined"
    THEN ParsedLine("error", NullExpectation, lineMessage("Unknown build type", lineNo, build[2]))
    ELSE parseBugs(bugLoop(build[1], <<>>),
                   IF truthy(build[2]) THEN enumLookup(BuildType, build[2]) ELSE "null",
                   testPath, outcomes, lineNo)

\* faulty variant: a line without test path ends the parse
parseTestPathThrow(word, outcomes, lineNo) ==
    IF ~truthy(word[2])
    THEN ParsedLine("error", NullExpectation,
                    lineMessage("Could not parse test path", lineNo, word[1]))
    ELSE parseBuildType(consumeBracketedEntityToken(word[1]), split(word[2], "/"), outcomes,
                        lineNo)

\* word is [rest of the line, testPathString]
parseTestPath(word, outcomes, lineNo) ==
    IF ~truthy(word[2])
    THEN ParsedLine("warning", NullExpectation,
                    lineMessage("Could not parse test path", lineNo, word[1]))
    ELSE parseBuildType(consumeBracketedEntityToken(word[1]), split(word[2], "/"), outcomes,
                        lineNo)

\* outcomesString.split(" ").map(x => x.trim()).filter(x => x != "")
outcomeNames(outcomesString) ==
    SelectSeq([i \in 1..Len(split(outcomesString, " ")) |-> trim(split(outcomesString, " ")[i])],
              LAMBDA x : x # <<>>)

\* faulty variant: no default when the names leave no outcome
listedOutcomesNoDefault(names) ==
    {enumLookup(TestOutcome, names[i]) : i \in 1..Len(names)} \ {"DumpJSConsoleLogInStdErr"}

\* the Set of the outcomes the names stand for, without the marker; {Pass} if that is empty
listedOutcomes(names) ==
    IF {enumLookup(TestOutcome, names[i]) : i \in 1..Len(names)} \ {"DumpJSConsoleLogInStdErr"} = {}
    THEN {"Pass"} \cup (IF dontShowUnexpectedPasses THEN {"Pass"} ELSE {})
    ELSE ({enumLookup(TestOutcome, names[i]) : i \in 1..Len(names)} \ {"DumpJSConsoleLogInStdErr"})
             \cup (IF dontShowUnexpectedPasses THEN {"Pass"} ELSE {})

\* names are the words of the outcome bracket, rest is the line before the bracket
parseOutcomes(names, rest, lineNo) ==
    IF \E i \in 1..Len(names) : enumLookup(TestOutcome, names[i]) = "undefined"
    THEN ParsedLine("error", NullExpectation,
                    lineMessage("Unknown outcome", lineNo,
                                names[Least({i \in 1..Len(names) :
                                                enumLookup(TestOutcome, names[i]) = "undefined"})]))
    ELSE parseTestPath(consumeWordToken(rest), listedOutcomes(names), lineNo)

\* faulty variant: a line without outcome bracket is expected to pass
parseBracketDefaultPass(bracket, lineNo) ==
    IF truthy(bracket[2]) THEN parseOutcomes(outcomeNames(bracket[2]), bracket[1], lineNo)
    ELSE parseTestPath(consumeWordToken(bracket[1]), {"Pass"}, lineNo)

\* bracket is [rest of the line, outcomesString]
parseBracket(bracket, lineNo) ==
    IF truthy(bracket[2]) THEN parseOutcomes(outcomeNames(bracket[2]), bracket[1], lineNo)
    ELSE parseTestPath(consumeWordToken(bracket[1]), {"Skip"}, lineNo)

\* line is the line without its comment, trimmed
parseContent(line, lineNo) ==
    IF line = <<>> THEN ParsedLine("blank", NullExpectation, NullMessage)
    ELSE parseBracket(consumeBracketedEntityToken(line), lineNo)

\* one turn of the loop of parseExpectations over the lines: "blank" and "warning"
\* continue without an expectation, "expectation" pushes one, "error" throws
parseLine(rawLine, lineNo) == parseContent(trim(split(rawLine, "#")[1]), lineNo)

RECURSIVE parseLines(_, _, _, _)
\* what the turn of line lineNo + 1 does with its outcome; an error ends the loop and
\* nothing is returned
parsedLine(parsed, lines, lineNo, collectedExpectations, warned) ==
    CASE parsed.kind = "error" ->
             [expectations |-> <<>>, warnings |-> warned, error |-> parsed.message]
      [] parsed.kind = "warning" ->
             parseLines(lines, lineNo + 1, collectedExpectations, Append(warned, parsed.message))
      [] parsed.kind = "blank" ->
             parseLines(lines, lineNo + 1, collectedExpectations, warned)
      [] parsed.kind = "expectation" ->
             parseLines(lines, lineNo + 1, Append(collectedExpectations, parsed.expectation),
                        warned)

\* the loop over the lines from line lineNo + 1 on
parseLines(lines, lineNo, collectedExpectations, warned) ==
    IF lineNo = Len(lines)
    THEN [expectations |-> collectedExpectations, warnings |-> warned, error |-> NullMessage]
    ELSE parsedLine(parseLine(lines[lineNo + 1], lineNo + 1), lines, lineNo,
                    collectedExpectations, warned)

\* parseExpectations on the text of a file: the expectations returned, the warnings
\* printed on the way, and the message of the Error thrown (NullMessage: none)
parseExpectations(fileText) == parseLines(split(fileText, "\n"), 0, <<>>, <<>>)

RECURSIVE parseExpectationFiles(_, _, _, _)
\* parsed is what parseExpectations made of file f
parsedFile(parsed, files, f, concatenated, warned) ==
    IF parsed.error # NullMessage
    THEN [expectations |-> <<>>, warnings |-> warned \o parsed.warnings, error |-> parsed.error]
    ELSE parseExpectationFiles(files, f + 1, concatenated \o parsed.expectations,
                               warned \o parsed.warnings)

\* Array.prototype.concat.apply([], testExpectationPaths.map(parseExpectations)):
\* the files from file f on are parsed in order and their lists concatenated
parseExpectationFiles(files, f, concatenated, warned) ==
    IF f > Len(files)
    THEN [expectations |-> concatenated, warnings |-> warned, error |-> NullMessage]
    ELSE parsedFile(parseExpectations(files[f]), files, f, concatenated, warned)

----------------------------------------------------------------------------
(* TestExpectation.toString *)

\* enum[value] for a value the parser stored: the name of a member; for the name of a
\* member (a string) the number of the member; undefined for anything else
enumName(enum, value) ==
    IF \E i \in 1..Len(enum) : enum[i] = value THEN chars(value)
    ELSE IF \E i \in 1..Len(enum) : "string:" \o enum[i] = value
    THEN chars(ToString((CHOOSE i \in 1..Len(enum) : "string:" \o enum[i] = value) - 1))
    ELSE chars("undefined")

RECURSIVE values(_)
\* Array.from(set.values()): the values, in the order they were added, which a set
\* does not keep here: some order
values(set) ==
    IF set = {} THEN <<>>
    ELSE <<CHOOSE x \in set : TRUE>> \o values(set \ {CHOOSE x \in set : TRUE})

\* the links of the bugs, not padded
bugLinks(bugIds) == [b \in 1..Len(bugIds) |-> chars("webkit.org/b/" \o ToString(bugIds[b]))]

\* `[ ${names.join(" ")} ]`
bracketed(names) == chars("[ ") \o join(names, <<" ">>) \o chars(" ]")

\* the names of the expected outcomes between brackets
outcomesPart(this) ==
    bracketed([o \in 1..Cardinality(this.expectedOutcomes) |->
                  enumName(TestOutcome, values(this.expectedOutcomes)[o])])

\* faulty variant: the build type is left out
toStringWithoutBuildType(this, testPath) ==
    join(bugLinks(this.bugIds) \o <<join(testPath, <<"/">>), outcomesPart(this)>>, <<" ">>)

\* toString(ToStringMode.Normal, testPath, ""): no colours, no padding
toString(this, testPath) ==
    join(bugLinks(this.bugIds)
             \o (IF this.buildTypeConstraint # "null"
                 THEN <<bracketed(<<enumName(BuildType, this.buildTypeConstraint)>>)>>
                 ELSE <<>>)
             \o <<join(testPath, <<"/">>), outcomesPart(this)>>,
         <<" ">>)

----------------------------------------------------------------------------
(* The run of main() after the expectation files are parsed *)

\* thrown is the message of the Error parseOutcomeString throws on the results of the
\* next test, NullMessage if none: the test is collected or the run ends
Collected(thrown) ==
    /\ error' = thrown
    /\ pc' = IF thrown = NullMessage THEN "collect" ELSE "fatal"
    /\ testHistories' =
           IF thrown # NullMessage THEN testHistories
           ELSE Append(testHistories,
                       collectTestHistory(allExpectations, buildType, webkitRevisions,
                                          resultsJson.tests[Len(testHistories) + 1]))

\* collectTestHistory for the next test of the document, in traversal order
CollectTestHistory ==
    /\ pc = "collect"
    /\ Len(testHistories) < Len(resultsJson.tests)
    /\ Collected(unknownOutcomeString(resultsJson.tests[Len(testHistories) + 1].results))
    /\ UNCHANGED <<argv, console, expectationFiles, warnings, buildType, allExpectations,
                   resultsJson, webkitRevisions, report>>

\* the traversal is over: cleanDuplicateBuilds(webkitRevisions, collectedTestHistories)
CleanDuplicateBuilds ==
    /\ pc = "collect"
    /\ Len(testHistories) = Len(resultsJson.tests)
    /\ webkitRevisions' = cleanWebkitRevisions(webkitRevisions)
    /\ testHistories' =
           [h \in 1..Len(testHistories) |-> cleanTestHistory(webkitRevisions, testHistories[h])]
    /\ pc' = "report"
    /\ UNCHANGED <<argv, console, expectationFiles, warnings, error, buildType,
                   allExpectations, resultsJson, report>>

\* lines is what findTestsWithInvalidExpectations plans to print
Reported(lines) ==
    /\ report' = printedLines(lines)
    /\ error' = thrownIn(lines)
    /\ pc' = IF thrownIn(lines) = NullMessage THEN "done" ELSE "fatal"

FindTestsWithInvalidExpectations ==
    /\ pc = "report"
    /\ Reported(plannedLines(webkitRevisions, testHistories))
    /\ UNCHANGED <<argv, console, expectationFiles, warnings, buildType, allExpectations,
                   resultsJson, webkitRevisions, testHistories>>

\* a line written with console.log (stdout) or console.error (stderr)
Written(stream, text) == [stream |-> stream, text |-> text]

TestContext(id, type, testExpectationPaths) ==
    [id |-> id, buildType |-> type, testExpectationPaths |-> testExpectationPaths]

availableContexts ==
    <<TestContext("gtk-debug", "Debug",
                  <<"platform/gtk/TestExpectations", "platform/wk2/TestExpectations",
                    "TestExpectations">>),
      TestContext("gtk-release", "Release",
                  <<"platform/gtk/TestExpectations", "platform/wk2/TestExpectations",
                    "TestExpectations">>),
      TestContext("gtk-release-wayland", "Release",
                  <<"platform/gtk-wayland/TestExpectations", "platform/gtk/TestExpectations",
                    "platform/wk2/TestExpectations", "TestExpectations">>),
      TestContext("wpe-release", "Release",
                  <<"platform/wpe/TestExpectations", "platform/gtk/TestExpectations",
                    "platform/wk2/TestExpectations", "TestExpectations">>)>>

\* faulty variant: the list of contexts goes to standard error
printAvailableContextsToStderr ==
    <<Written("stderr", ""), Written("stderr", "Available contexts:")>>
        \o [c \in 1..Len(availableContexts) |->
                Written("stderr", "  " \o availableContexts[c].id)]

printAvailableContexts ==
    <<Written("stdout", ""), Written("stdout", "Available contexts:")>>
        \o [c \in 1..Len(availableContexts) |->
                Written("stdout", "  " \o availableContexts[c].id)]

\* availableContexts.find(ctx => ctx.id == chosenContextId): its index, 0 for undefined
findContext(chosenContextId) ==
    IF \E c \in 1..Len(availableContexts) : availableContexts[c].id = chosenContextId
    THEN Least({c \in 1..Len(availableContexts) : availableContexts[c].id = chosenContextId})
    ELSE 0

\* main() with a context: it goes on to parse the expectation files
Chosen(testContext) ==
    /\ buildType' = availableContexts[testContext].buildType
    /\ pc' = "parse"
    /\ UNCHANGED console

\* main() up to the choice of the context
Main ==
    /\ pc = "main"
    /\ IF Len(argv) # 3
       THEN /\ console' = console \o <<Written("stdout", "Usage: auto-gardener <context-id>")>>
                               \o printAvailableContexts
            /\ pc' = "usage"
            /\ UNCHANGED buildType
       ELSE IF findContext(argv[3]) = 0
       THEN /\ console' = console \o <<Written("stderr", "Unknown context: " \o argv[3])>>
                               \o printAvailableContexts
            /\ pc' = "usage"
            /\ UNCHANGED buildType
       ELSE Chosen(findContext(argv[3]))
    /\ UNCHANGED <<argv, expectationFiles, warnings, error, allExpectations, resultsJson,
                   webkitRevisions, testHistories, report>>

\* the exit status of the process: process.exit(1), an uncaught Error, or the end of
\* main(); NullRevision while it runs
exitCode ==
    CASE pc = "done" -> 0
      [] pc \in {"usage", "fatal"} -> 1
      [] OTHER -> NullRevision

\* constructBotTestsResultsFromJson reads and parses the results file
ReadResultsJson ==
    /\ pc = "read"
    /\ error' = CASE resultsJson.file = "json" -> NullMessage
                  [] resultsJson.file = "unreadable" -> "ENOENT: no such file or directory"
                  [] resultsJson.file = "malformed" -> "Unexpected end of JSON input"
    /\ pc' = IF resultsJson.file = "json" THEN "collect" ELSE "fatal"
    /\ UNCHANGED <<argv, console, expectationFiles, warnings, buildType, allExpectations,
                   resultsJson, webkitRevisions, testHistories, report>>

\* main() up to constructBotTestsResultsFromJson: an Error thrown by a parser ends the run
Parsed(parsed) ==
    /\ warnings' = warnings \o parsed.warnings
    /\ error' = parsed.error
    /\ allExpectations' = parsed.expectations
    /\ pc' = IF parsed.error = NullMessage THEN "read" ELSE "fatal"

ParseExpectationFiles ==
    /\ pc = "parse"
    /\ Parsed(parseExpectationFiles(expectationFiles, 1, <<>>, <<>>))
    /\ UNCHANGED <<argv, console, expectationFiles, buildType, resultsJson, webkitRevisions,
                   testHistories, report>>

Next ==
    \/ CollectTestHistory
    \/ CleanDuplicateBuilds
    \/ FindTestsWithInvalidExpectations

\* the run of main() from its start
NextMain ==
    \/ ParseExpectationFiles
    \/ ReadResultsJson
    \/ CollectTestHistory
    \/ CleanDuplicateBuilds
    \/ FindTestsWithInvalidExpectations

\* the process from its start
NextProcess ==
    \/ Main
    \/ ParseExpectationFiles
    \/ ReadResultsJson
    \/ CollectTestHistory
    \/ CleanDuplicateBuilds
    \/ FindTestsWithInvalidExpectations

----------------------------------------------------------------------------
(* Inputs *)

\* the sequences over S of length at most n
SeqsUpTo(S, n) == UNION {[1..k -> S] : k \in 0..n}

RECURSIVE revisionList(_, _)
\* most recent first: the newest revision, then each older one by its gap
revisionList(newest, gaps) ==
    IF gaps = <<>> THEN <<newest>>
    ELSE <<newest>> \o revisionList(newest - Head(gaps), Tail(gaps))

\* the webkitRevision arrays of the document: a gap of 0 is a revision built twice
RevisionLists(newestRevisions, gapSet, maxLength) ==
    {r \in {revisionList(n, g) : n \in newestRevisions, g \in SeqsUpTo(gapSet, maxLength - 1)} :
        \A i \in 1..Len(r) : r[i] >= 1}

\* the run-length encoded results of one test
ResultsArrays(counts, letters, maxPairs) == SeqsUpTo(counts \X letters, maxPairs)

JsonTest(testPath, results) == [testPath |-> testPath, results |-> results]

\* results/<context id>.json: file is "json" for a results document, "unreadable" for a
\* file that cannot be read, "malformed" for one that holds no results document
ResultsFile(file, revisions, tests) ==
    [file |-> file, webkitRevision |-> revisions, tests |-> tests]

\* process.argv of `node auto-gardener <arguments>`
Argv(arguments) == <<"node", "auto-gardener">> \o arguments

\* the state constructBotTestsResultsFromJson starts from
Start(type, expectations, revisions, tests) ==
    /\ pc = "collect"
    /\ argv = Argv(<<IF type = "Debug" THEN "gtk-debug" ELSE "gtk-release">>)
    /\ console = <<>>
    /\ buildType = type
    /\ allExpectations = expectations
    /\ resultsJson = ResultsFile("json", revisions, tests)
    /\ webkitRevisions = revisions
    /\ testHistories = <<>>
    /\ report = <<>>
    /\ expectationFiles = <<>>
    /\ warnings = <<>>
    /\ error = NullMessage

\* path segments and test paths of the inputs
SegA == <<"a">>

SegB == <<"b">>

LeafC == <<"c", ".", "h">>

AnyBuild(testPath, expectedOutcomes) == TestExpectation(1, testPath, <<>>, expectedOutcomes, "null")

\* Regression analyzer: one test, short revision lists with gaps and re-runs
Init ==
    \E revisions \in RevisionLists({5, 10}, {0, 1, 4}, MaxRevisions),
       results \in ResultsArrays({1}, {"N", "P", "F", "C"}, MaxPairs),
       expectations \in {<<>>, <<AnyBuild(<<SegA>>, {"Failure"})>>} :
        Start("Release", expectations, revisions, <<JsonTest(<<SegA, SegB, LeafC>>, results)>>)

Spec == Init /\ [][Next]_vars

\* Expectation resolver: lists of overlapping expectations, one or more tests
ResolverExpectations ==
    {[i \in 1..Len(e) |-> TestExpectation(i, e[i][1], <<>>, {"Failure"}, e[i][2])] :
        e \in SeqsUpTo({<<SegA>>, <<SegA, SegB>>, <<SegB>>, <<SegA, SegB, LeafC>>}
                           \X {"null", "Debug", "Release"},
                       MaxExpectations)}

ResolverTests ==
    {[i \in 1..Len(t) |-> JsonTest(t[i], <<<<2, "F">>, <<1, "P">>>>)] :
        t \in SeqsUpTo({<<SegA, SegB, LeafC>>, <<SegB, LeafC>>}, MaxTests)}

InitResolver ==
    \E type \in {"Debug", "Release"}, expectations \in ResolverExpectations,
       tests \in ResolverTests :
        Start(type, expectations, <<10, 9>>, tests)

SpecResolver == InitResolver /\ [][Next]_vars

\* Match status: every outcome letter, against several accepted sets
InitOutcomes ==
    \E revisions \in RevisionLists({10}, {0, 1}, MaxRevisions),
       results \in ResultsArrays({1}, OutcomeLetters, MaxOutcomePairs),
       expectations \in {<<>>} \cup {<<AnyBuild(<<SegA>>, accepted)>> :
                                       accepted \in {{"Skip"}, {"Failure"}, {"Pass", "Skip"},
                                                     {"Crash", "Timeout"}}} :
        Start("Release", expectations, revisions, <<JsonTest(<<SegA, LeafC>>, results)>>)

SpecOutcomes == InitOutcomes /\ [][Next]_vars

\* Flaky tests: revision lists long enough to have three slots past the cut-off, with
\* histories that fill them or miss the oldest slot; and the short inputs of Init
LongRevisionLists ==
    {revisionList(40, [i \in 1..(LongRevisions - 1) |-> IF i = 1 THEN g ELSE 1]) : g \in {0, 2}}

LongResultsArrays ==
    UNION {[1..k -> {1} \X {"P", "F"}] : k \in (LongRevisions - 1)..LongRevisions}

InitFlaky ==
    \/ \E revisions \in LongRevisionLists, results \in LongResultsArrays :
           Start("Release", <<>>, revisions, <<JsonTest(<<SegA, LeafC>>, results)>>)
    \/ Init

SpecFlaky == InitFlaky /\ [][Next]_vars

\* the results of the second test of the loader inputs: none, a run, NoData and Skip
LoaderResults == {<<>>, <<<<3, "C">>>>, <<<<1, "N">>, <<1, "X">>>>}

\* History loader: run-length pairs with counts, shorter and longer than the revision
\* list, which has re-run revisions; two tests under one expectation
InitLoader ==
    \E revisions \in RevisionLists({10}, {0, 1}, MaxRevisions),
       results \in ResultsArrays({1, 2}, {"P", "F"}, MaxOutcomePairs),
       others \in LoaderResults :
        Start("Release", <<AnyBuild(<<SegA>>, {"Failure"})>>, revisions,
              <<JsonTest(<<SegA, SegB, LeafC>>, results), JsonTest(<<SegA, LeafC>>, others)>>)

SpecLoader == InitLoader /\ [][Next]_vars

\* the state main() starts from: the expectation files are not parsed yet
StartMain(type, files, revisions, tests) ==
    /\ pc = "parse"
    /\ argv = Argv(<<IF type = "Debug" THEN "gtk-debug" ELSE "gtk-release">>)
    /\ console = <<>>
    /\ buildType = type
    /\ expectationFiles = files
    /\ warnings = <<>>
    /\ error = NullMessage
    /\ allExpectations = <<>>
    /\ resultsJson = ResultsFile("json", revisions, tests)
    /\ webkitRevisions = revisions
    /\ testHistories = <<>>
    /\ report = <<>>

\* lines of a TestExpectations file: well-formed ones, blank ones, and ones that lack
\* the outcome bracket or the path, or carry names and words the format does not know
ExpectationLines ==
    {chars(line) : line \in
        {"", "# comment",
         "a/b [ Failure ]",
         "webkit.org/b/7 [ Debug ]\ta [ Crash  Timeout ] # slow",
         "a/b/c.h",
         "a/b/c.h [ DumpJSConsoleLogInStdErr ]",
         "a/b [ Pass DumpJSConsoleLogInStdErr ]",
         "a [ ]",
         "[ Crash ]",
         "[ Foo ]",
         "a/b [ Foo ]",
         "[ Mac ] a/b [ Pass ]",
         "[ Mac ] a/b",
         "a/b [ 1 ]",
         "a/b [ toString ]",
         "[ 0 ] a/b [ Pass ]",
         "webkit.org/b/7 webkit.org/b/12 [ Release ] a/b [ Pass Failure ]",
         "junk a/b [ Timeout ]"}}

\* the texts of files of at most maxLines lines
FileTexts(lines, maxLines) == {join(text, <<"\n">>) : text \in SeqsUpTo(lines, maxLines)}

\* the results document of the parser runs: one test, failing at the latest revision
ParserTests == <<JsonTest(<<SegA, SegB, LeafC>>, <<<<1, "F">>, <<1, "P">>>>)>>

\* Expectation parser: one file of a few lines
InitParser ==
    \E fileText \in FileTexts(ExpectationLines, MaxLines) :
        StartMain("Release", <<fileText>>, <<10, 9>>, ParserTests)

SpecParser == InitParser /\ [][NextMain]_vars

\* expectation files whose entries overlap on the test a/b/c.h: equal paths with
\* different outcomes, in one file and across files
PriorityFiles ==
    {chars(text) : text \in
        {"", "a/b [ Failure ]", "a/b [ Crash ]", "a [ Timeout ]\na/b [ Pass ]",
         "[ Debug ] a/b [ Timeout ]", "a/b/c.h [ Failure ]\na/b/c.h [ Crash ]"}}

\* File priority: the files of a context, the path with the most priority first
InitPriority ==
    \E type \in {"Debug", "Release"}, files \in SeqsUpTo(PriorityFiles, MaxFiles) :
        StartMain(type, files, <<10, 9>>, ParserTests)

SpecPriority == InitPriority /\ [][NextMain]_vars

\* the tests of the report runs, in the order of the document: two of directory a and
\* one of directory b
ReportPaths == <<<<SegA, <<"m", ".", "h">>>>, <<SegA, LeafC>>, <<SegB, LeafC>>>>

\* the bugs of a TestExpectations line as the parser stores them
ReportBugs == {<<>>, <<0>>, <<7>>, <<12, 7>>}

\* Report order: every test has its own entry, with or without bugs, that expects a
\* Failure, and passes or crashes at the only revision
InitReport ==
    \E bugs \in [1..Len(ReportPaths) -> ReportBugs],
       letters \in [1..Len(ReportPaths) -> {"P", "C"}] :
        Start("Release",
              [t \in 1..Len(ReportPaths) |->
                  TestExpectation(t, ReportPaths[t], bugs[t], {"Failure"}, "null")],
              <<10>>,
              [t \in 1..Len(ReportPaths) |-> JsonTest(ReportPaths[t], <<<<1, letters[t]>>>>)])

SpecReport == InitReport /\ [][Next]_vars

\* command lines: no argument, a known context, an unknown one, two arguments
CommandLines ==
    {Argv(<<>>), Argv(<<"gtk-debug">>), Argv(<<"wpe-release">>), Argv(<<"gtk">>),
     Argv(<<"gtk-debug", "gtk-release">>)}

\* texts of an expectation file for the test a/b/c.h
ProcessFiles == {chars(text) : text \in {"", "a/b [ Crash ]", "a/b [ 1 ]", "a/b [ Foo ]"}}

\* results files: unreadable, malformed, a document whose test fails at the latest
\* revision, one whose test passes, one with an outcome letter the loader does not know
ProcessResults ==
    {ResultsFile("unreadable", <<>>, <<>>), ResultsFile("malformed", <<>>, <<>>)}
        \cup {ResultsFile("json", <<10, 9>>, <<JsonTest(<<SegA, SegB, LeafC>>, results)>>) :
                  results \in {<<<<1, "F">>, <<1, "P">>>>, <<<<2, "P">>>>, <<<<1, "F">>, <<1, "S">>>>}}

\* the files the run of a command line reads: those of the context it names, if any
FilesOf(commandLine) ==
    IF Len(commandLine) = 3 /\ findContext(commandLine[3]) # 0
    THEN [1..Len(availableContexts[findContext(commandLine[3])].testExpectationPaths)
              -> ProcessFiles]
    ELSE {<<>>}

\* The process: a command line, and the files it finds
InitProcess ==
    \E commandLine \in CommandLines, results \in ProcessResults :
        \E files \in FilesOf(commandLine) :
            /\ pc = "main"
            /\ argv = commandLine
            /\ console = <<>>
            /\ buildType = "null"
            /\ expectationFiles = files
            /\ warnings = <<>>
            /\ error = NullMessage
            /\ allExpectations = <<>>
            /\ resultsJson = results
            /\ webkitRevisions = results.webkitRevision
            /\ testHistories = <<>>
            /\ report = <<>>

SpecProcess == InitProcess /\ [][NextProcess]_vars

----------------------------------------------------------------------------
(* Vocabulary of the properties *)

\* the histories are complete and cleaned: the analyzer runs on them
Ready == pc \in {"report", "done"}

Histories == {testHistories[k] : k \in 1..Len(testHistories)}

\* match status of slot i of a history
StatusAt(h, i) == matchesExpectation(h, h.lastResults[i].webkitRevision)

Mismatches(h) == {i \in 1..Len(h.lastResults) : StatusAt(h, i) = "false"}

\* the slot of the oldest mismatch: the first one the oldest-to-newest scan meets
OldestMismatch(h) == CHOOSE i \in Mismatches(h) : \A j \in Mismatches(h) : j <= i

\* the slots older than the oldest mismatch that match
GoodBefore(h) == {i \in 1..Len(h.lastResults) : i > OldestMismatch(h) /\ StatusAt(h, i) = "true"}

\* the last-good revision when the scan meets the oldest mismatch
LastGood(h) == h.lastResults[CHOOSE i \in GoodBefore(h) : \A j \in GoodBefore(h) : i <= j].webkitRevision

FirstFailure(h) == h.lastResults[OldestMismatch(h)].webkitRevision

Result(revision, outcome) == [webkitRevision |-> revision, outcome |-> outcome]

Printed(text) == \E l \in 1..Len(report) : report[l].kind = "message" /\ report[l].text = text

----------------------------------------------------------------------------
(* Regression analyzer: first-failure inference *)

\* C2: when a last-good revision is known and the first mismatch of the oldest-to-newest
\* scan is the revision right after it (last good + 1), findFirstFailedRevisionRange
\* returns exactly that revision; [(r5,Fail),(r4,Pass),(r3,Pass)] without expectation gives 5.
C2_ExactSuccessor ==
    Ready => \A h \in Histories :
        /\ (/\ Mismatches(h) # {}
            /\ GoodBefore(h) # {}
            /\ FirstFailure(h) = LastGood(h) + 1)
               => findFirstFailedRevisionRange(h, webkitRevisions) = ExactRevision(FirstFailure(h))
        /\ (/\ h.lastResults = <<Result(5, "Failure"), Result(4, "Pass"), Result(3, "Pass")>>
            /\ h.expectation = NullExpectation)
               => findFirstFailedRevisionRange(h, webkitRevisions) = ExactRevision(5)

C2_Witness ==
    /\ pc = "done"
    /\ \E h \in Histories :
          /\ h.lastResults = <<Result(5, "Failure"), Result(4, "Pass"), Result(3, "Pass")>>
          /\ h.expectation = NullExpectation
    /\ Printed("Failing since r5")

\* C3 as stated: [(r10,Fail),(r9,Fail),(r5,Pass)] without expectation gives {start: 6, end: 10}.
C3_Original ==
    Ready => \A h \in Histories :
        (/\ h.lastResults = <<Result(10, "Failure"), Result(9, "Failure"), Result(5, "Pass")>>
         /\ h.expectation = NullExpectation)
            => findFirstFailedRevisionRange(h, webkitRevisions) = Range(6, 10, FALSE)

\* C3, amended: that history gives {start: 6, end: 9}: the range ends at the first mismatch
\* the scan meets (r9), and in general a known last-good revision that is not the immediate
\* predecessor gives {start: last good + 1, end: first mismatch}.
C3_GapRange ==
    Ready => \A h \in Histories :
        /\ (/\ h.lastResults = <<Result(10, "Failure"), Result(9, "Failure"), Result(5, "Pass")>>
            /\ h.expectation = NullExpectation)
               => findFirstFailedRevisionRange(h, webkitRevisions) = Range(6, 9, FALSE)
        /\ (/\ Mismatches(h) # {}
            /\ GoodBefore(h) # {}
            /\ FirstFailure(h) # LastGood(h) + 1)
               => findFirstFailedRevisionRange(h, webkitRevisions)
                      = Range(LastGood(h) + 1, FirstFailure(h), FALSE)

C3_Witness ==
    /\ pc = "done"
    /\ \E h \in Histories :
          /\ h.lastResults = <<Result(10, "Failure"), Result(9, "Failure"), Result(5, "Pass")>>
          /\ h.expectation = NullExpectation
    /\ Printed("Failing since r6-9")

\* the newest known revision below the first failure
OlderKnown(h) == {i \in 1..Len(webkitRevisions) : webkitRevisions[i] < FirstFailure(h)}

NextOlderKnown(h) == webkitRevisions[CHOOSE i \in OlderKnown(h) : \A j \in OlderKnown(h) : i <= j]

\* C4 as stated: first usable signal a mismatch and history shorter than the revision list
\* gives that exact revision.
C4_Original ==
    Ready => \A h \in Histories :
        (/\ Mismatches(h) # {}
         /\ GoodBefore(h) = {}
         /\ Len(h.lastResults) < Len(webkitRevisions))
            => findFirstFailedRevisionRange(h, webkitRevisions) = ExactRevision(FirstFailure(h))

\* C4, amended: in that case the newest known revision below the mismatching one is taken
\* as last good: the exact revision is reported only when it is that revision + 1, and
\* otherwise the range {start: that revision + 1, end: mismatching revision}.
C4_AssumedLastGood ==
    Ready => \A h \in Histories :
        (/\ Mismatches(h) # {}
         /\ GoodBefore(h) = {}
         /\ Len(h.lastResults) < Len(webkitRevisions))
            => /\ OlderKnown(h) # {}
               /\ findFirstFailedRevisionRange(h, webkitRevisions)
                      = IF FirstFailure(h) = NextOlderKnown(h) + 1
                        THEN ExactRevision(FirstFailure(h))
                        ELSE Range(NextOlderKnown(h) + 1, FirstFailure(h), FALSE)

C4_Witness ==
    /\ pc = "done"
    /\ \E h \in Histories :
          /\ Mismatches(h) # {}
          /\ GoodBefore(h) = {}
          /\ Len(h.lastResults) < Len(webkitRevisions)
          /\ NextOlderKnown(h) + 1 < FirstFailure(h)
          /\ Printed("Failing since "
                        \o formatRevisionRangeString(Range(NextOlderKnown(h) + 1, FirstFailure(h), FALSE)))

\* C5: "long ago" is returned exactly when the first mismatch is met with no last-good
\* revision and the history is at least as long as the revision list; so it is for a
\* history without expectation, all Failure, as long as the revision list.
C5_LongAgo ==
    Ready => \A h \in Histories :
        /\ findFirstFailedRevisionRange(h, webkitRevisions) = LongAgo
               <=> (/\ Mismatches(h) # {}
                    /\ GoodBefore(h) = {}
                    /\ Len(h.lastResults) >= Len(webkitRevisions))
        /\ (/\ h.expectation = NullExpectation
            /\ Len(h.lastResults) = Len(webkitRevisions)
            /\ \A i \in 1..Len(h.lastResults) : h.lastResults[i].outcome = "Failure")
               => findFirstFailedRevisionRange(h, webkitRevisions) = LongAgo

C5_Witness ==
    /\ pc = "done"
    /\ Len(webkitRevisions) >= 2
    /\ \E h \in Histories :
          /\ h.expectation = NullExpectation
          /\ Len(h.lastResults) = Len(webkitRevisions)
          /\ \A i \in 1..Len(h.lastResults) : h.lastResults[i].outcome = "Failure"
          /\ findFirstFailedRevisionRange(h, webkitRevisions) = LongAgo
    /\ Len(report) = 4

\* C6: "never failed" is returned exactly when no slot of the history mismatches.
C6_NeverFailed ==
    Ready => \A h \in Histories :
        findFirstFailedRevisionRange(h, webkitRevisions) = NeverFailed <=> Mismatches(h) = {}

C6_Witness ==
    /\ pc = "done"
    /\ \E h \in Histories :
          /\ \E i \in 1..Len(h.lastResults) : StatusAt(h, i) = "true"
          /\ \E i \in 1..Len(h.lastResults) : StatusAt(h, i) = "null"
          /\ findFirstFailedRevisionRange(h, webkitRevisions) = NeverFailed

----------------------------------------------------------------------------
(* Regression analyzer: flaky or consistent *)

FirstFailedRange(h) == findFirstFailedRevisionRange(h, webkitRevisions)

HasFailurePoint(h) == FirstFailedRange(h).kind \in {"revision", "range"}

\* a revision newer than the first known failed revision matches
MatchesLater(h) ==
    \E i \in 1..Len(h.lastResults) :
        /\ h.lastResults[i].webkitRevision > FirstFailedRange(h).end
        /\ StatusAt(h, i) = "true"

FlakyMessages(h) ==
    {"Flaky since long ago",
     "Flaky since " \o formatRevisionRangeString(FirstFailedRange(h)),
     "Flaky since r" \o ToString(FirstFailedRange(h).end) \o " or earlier"}

\* C9: the message is "Failing since <range>" exactly when the first failure is a revision
\* or a range and no newer revision matches; when a newer revision matches, the message
\* is a "Flaky since" one.
C9_FailingOrFlaky ==
    Ready => \A h \in Histories :
        LET message == constructFirstFailedRevisionMessage(h, webkitRevisions)
            failing == "Failing since " \o formatRevisionRangeString(FirstFailedRange(h))
        IN  /\ message = failing <=> (HasFailurePoint(h) /\ ~MatchesLater(h))
            /\ (HasFailurePoint(h) /\ MatchesLater(h)) => message \in FlakyMessages(h)
            /\ message \in FlakyMessages(h) => (HasFailurePoint(h) /\ MatchesLater(h))

C9_Witness ==
    /\ pc = "done"
    /\ \E h \in Histories :
          /\ FirstFailedRange(h).kind = "range"
          /\ ~MatchesLater(h)
          /\ \E i \in 1..Len(h.lastResults) : StatusAt(h, i) = "true"
          /\ Printed("Failing since " \o formatRevisionRangeString(FirstFailedRange(h)))

----------------------------------------------------------------------------
(* Expectation resolver *)

IsPrefix(a, b) == Len(a) <= Len(b) /\ SubSeq(b, 1, Len(a)) = a

\* the expectations of the list that apply to a test path under the build type
Applicable(testPath) ==
    {i \in 1..Len(allExpectations) :
        /\ IsPrefix(allExpectations[i].testPath, testPath)
        /\ allExpectations[i].buildTypeConstraint \in {"null", buildType}}

\* C1: the expectation resolved for a test is null exactly when no expectation has a path
\* that is a prefix of (or equal to) the test path and a build constraint null or equal to
\* the build type; otherwise it is one of those, and none of them has more path segments
\* ([a] and [a,b] on a test under a/b give the [a,b] expectation).
C1_MostSpecific ==
    \A h \in Histories :
        /\ h.expectation = NullExpectation <=> Applicable(h.testPath) = {}
        /\ Applicable(h.testPath) # {} =>
               \E i \in Applicable(h.testPath) :
                   /\ h.expectation = allExpectations[i]
                   /\ \A j \in Applicable(h.testPath) :
                          Len(allExpectations[j].testPath) <= Len(allExpectations[i].testPath)
        /\ (/\ h.testPath = <<SegA, SegB, LeafC>>
            /\ \E i \in Applicable(h.testPath) : allExpectations[i].testPath = <<SegA>>
            /\ \E i \in Applicable(h.testPath) : allExpectations[i].testPath = <<SegA, SegB>>
            /\ \A i \in Applicable(h.testPath) : Len(allExpectations[i].testPath) <= 2)
               => h.expectation.testPath = <<SegA, SegB>>

C1_Witness ==
    /\ Len(allExpectations) = 2
    /\ allExpectations[1].testPath = <<SegA>>
    /\ allExpectations[2].testPath = <<SegA, SegB>>
    /\ \E h \in Histories :
          /\ h.testPath = <<SegA, SegB, LeafC>>
          /\ Applicable(h.testPath) = {1, 2}
          /\ h.expectation = allExpectations[2]

----------------------------------------------------------------------------
(* Match status *)

SlotsOf(h, revision) == {i \in 1..Len(h.lastResults) : h.lastResults[i].webkitRevision = revision}

\* the revisions asked about: the known ones, and revisions the document never had
ProbedRevisions ==
    {webkitRevisions[i] : i \in 1..Len(webkitRevisions)}
        \cup {webkitRevisions[i] + 1 : i \in 1..Len(webkitRevisions)}
        \cup {webkitRevisions[i] - 1 : i \in 1..Len(webkitRevisions)}

\* C7: matchesExpectation(revision) is null exactly when the history has no result for the
\* revision or its outcome is NoData or Skip; otherwise it is (outcome = Pass) without
\* expectation, and with one it is true iff the outcome is accepted or Skip is accepted.
C7_MatchStatus ==
    Ready => \A h \in Histories : \A revision \in ProbedRevisions :
        LET status == matchesExpectation(h, revision)
            outcome == h.lastResults[CHOOSE i \in SlotsOf(h, revision) : TRUE].outcome
        IN  /\ Cardinality(SlotsOf(h, revision)) <= 1
            /\ status = "null" <=> (SlotsOf(h, revision) = {} \/ outcome \in {"NoData", "Skip"})
            /\ (status # "null" /\ h.expectation = NullExpectation)
                   => (status = "true" <=> outcome = "Pass")
            /\ (status # "null" /\ h.expectation # NullExpectation)
                   => (status = "true" <=> (\/ outcome \in h.expectation.expectedOutcomes
                                             \/ "Skip" \in h.expectation.expectedOutcomes))
            /\ status \in {"true", "false", "null"}

C7_Witness ==
    /\ pc = "done"
    /\ \E h \in Histories :
          /\ h.expectation # NullExpectation
          /\ "Skip" \notin h.expectation.expectedOutcomes
          /\ Len(h.lastResults) < Len(webkitRevisions)
          /\ Len(h.lastResults) = 2
          /\ StatusAt(h, 1) = "false"
          /\ h.lastResults[2].outcome = "Skip"
          /\ StatusAt(h, 2) = "null"

\* C8 as stated: with Skip in the accepted set, every recorded outcome reports a match.
C8_Original ==
    Ready => \A h \in Histories :
        (h.expectation # NullExpectation /\ "Skip" \in h.expectation.expectedOutcomes)
            => \A i \in 1..Len(h.lastResults) : StatusAt(h, i) = "true"

\* C8, amended: with Skip in the accepted set, every recorded outcome other than NoData and
\* Skip reports a match; NoData and Skip report null; a mismatch is never reported.
C8_SkipWildcard ==
    Ready => \A h \in Histories :
        (h.expectation # NullExpectation /\ "Skip" \in h.expectation.expectedOutcomes)
            => \A i \in 1..Len(h.lastResults) :
                   StatusAt(h, i) = IF h.lastResults[i].outcome \in {"NoData", "Skip"}
                                    THEN "null" ELSE "true"

C8_Witness ==
    /\ pc = "done"
    /\ \E h \in Histories :
          /\ h.expectation # NullExpectation
          /\ h.expectation.expectedOutcomes = {"Skip"}
          /\ Len(h.lastResults) = 2
          /\ h.lastResults[1].outcome = "Crash"
          /\ StatusAt(h, 1) = "true"
          /\ h.lastResults[2].outcome = "NoData"
          /\ StatusAt(h, 2) = "null"
    /\ Len(report) = 1

----------------------------------------------------------------------------
(* Flaky since when *)

\* the first matching revision after the first known failed revision, oldest first
FirstPassAfterwards(h) ==
    LET later == {i \in 1..Len(h.lastResults) :
                     /\ h.lastResults[i].webkitRevision > FirstFailedRange(h).end
                     /\ StatusAt(h, i) = "true"}
    IN  h.lastResults[CHOOSE i \in later : \A j \in later : j <= i].webkitRevision

\* the slot of the revision in the stored result sequence, counted from 0, is past the
\* cut-off index: three quarters of the number of known revisions, rounded down
OldBySlot(h, revision) ==
    \E i \in SlotsOf(h, revision) : i - 1 > (3 * Len(webkitRevisions)) \div 4

Flaky(h) == HasFailurePoint(h) /\ MatchesLater(h)

\* C10 as stated: a flaky test gets "Flaky since long ago" exactly when both revisions are
\* old by slot, and "Flaky since <range>" otherwise.
C10_Original ==
    Ready => \A h \in Histories :
        Flaky(h) =>
            constructFirstFailedRevisionMessage(h, webkitRevisions)
                = IF /\ OldBySlot(h, FirstFailedRange(h).end)
                     /\ OldBySlot(h, FirstPassAfterwards(h))
                  THEN "Flaky since long ago"
                  ELSE "Flaky since " \o formatRevisionRangeString(FirstFailedRange(h))

\* C10, amended: a flaky test gets "Flaky since long ago" exactly when both revisions are
\* old by slot, and otherwise "Flaky since r<first known failed revision> or earlier".
C10_FlakySince ==
    Ready => \A h \in Histories :
        Flaky(h) =>
            constructFirstFailedRevisionMessage(h, webkitRevisions)
                = IF /\ OldBySlot(h, FirstFailedRange(h).end)
                     /\ OldBySlot(h, FirstPassAfterwards(h))
                  THEN "Flaky since long ago"
                  ELSE "Flaky since r" \o ToString(FirstFailedRange(h).end) \o " or earlier"

C10_Witness ==
    /\ pc = "done"
    /\ Printed("Flaky since long ago")
    /\ \E h \in Histories :
          /\ Flaky(h)
          /\ OldBySlot(h, FirstFailedRange(h).end)
          /\ OldBySlot(h, FirstPassAfterwards(h))

----------------------------------------------------------------------------
(* File priority *)

\* the expectations file f contributes
FileExpectations(f) == parseExpectations(expectationFiles[f]).expectations

\* the entries of file f that apply to the test of h
FileMatches(h, f) ==
    {i \in 1..Len(FileExpectations(f)) :
        /\ IsPrefix(FileExpectations(f)[i].testPath, h.testPath)
        /\ FileExpectations(f)[i].buildTypeConstraint \in {"null", buildType}}

\* the entries of file f that apply to the test of h with the most path segments any
\* applying entry of any file has
FileBest(h, f) ==
    {i \in FileMatches(h, f) :
        \A g \in 1..Len(expectationFiles) : \A j \in FileMatches(h, g) :
            Len(FileExpectations(g)[j].testPath) <= Len(FileExpectations(f)[i].testPath)}

\* C11: when several applying expectations share the greatest path segment count, the
\* resolver returns the one that comes first in its input list, and the list is the
\* concatenation of the parsed files in testExpectationPaths order: the expectation of a
\* test is the first such entry of the earliest listed file that has one.
C11_FirstListedWins ==
    pc \in {"read", "collect", "report", "done"} =>
        /\ \A h \in Histories :
               /\ Applicable(h.testPath) # {} =>
                      h.expectation =
                          allExpectations[Least({i \in Applicable(h.testPath) :
                              \A j \in Applicable(h.testPath) :
                                  Len(allExpectations[j].testPath)
                                      <= Len(allExpectations[i].testPath)})]
               /\ \A f \in 1..Len(expectationFiles) :
                      (FileBest(h, f) # {} /\ \A g \in 1..(f - 1) : FileBest(h, g) = {})
                          => h.expectation = FileExpectations(f)[Least(FileBest(h, f))]
        /\ \A f \in 1..Len(expectationFiles) : \A i \in 1..Len(FileExpectations(f)) :
               \E k \in 1..Len(allExpectations) :
                   /\ allExpectations[k] = FileExpectations(f)[i]
                   /\ \A g \in 1..(f - 1) : \A j \in 1..Len(FileExpectations(g)) :
                          \E l \in 1..(k - 1) : allExpectations[l] = FileExpectations(g)[j]

\* two files tie on a/b with different outcomes; the first file's entry was resolved
C11_Witness ==
    /\ Len(expectationFiles) = 2
    /\ \E h \in Histories :
          /\ FileBest(h, 1) # {} /\ FileBest(h, 2) # {}
          /\ FileExpectations(1)[Least(FileBest(h, 1))].expectedOutcomes
                 # FileExpectations(2)[Least(FileBest(h, 2))].expectedOutcomes
          /\ h.expectation = FileExpectations(1)[Least(FileBest(h, 1))]

----------------------------------------------------------------------------
(* Path containment *)

\* the paths of a run: those of the expectations and those of the tests of the document
KnownPaths ==
    {allExpectations[i].testPath : i \in 1..Len(allExpectations)}
        \cup {resultsJson.tests[t].testPath : t \in 1..Len(resultsJson.tests)}

\* C12: A.equalsOrContains(B) is true exactly when the segments of A are a prefix of the
\* segments of B (A = B included), so it is false whenever A has more segments than B;
\* hence an expectation is resolved for a test only if its path is a prefix of the test's.
C12_PrefixExactly ==
    /\ \A A \in KnownPaths : \A B \in KnownPaths :
           /\ equalsOrContains(A, B) <=> IsPrefix(A, B)
           /\ Len(A) > Len(B) => ~equalsOrContains(A, B)
    /\ \A h \in Histories :
           /\ h.expectation # NullExpectation => IsPrefix(h.expectation.testPath, h.testPath)
           /\ \A i \in 1..Len(allExpectations) :
                  matchesTest(allExpectations[i], h.testPath, buildType)
                      => IsPrefix(allExpectations[i].testPath, h.testPath)

\* a test under a/b resolved to the expectation of a/b: a/b contains a/b/c.h, and
\* a/b/c.h, which has a/b as a proper prefix, does not contain a/b
C12_Witness ==
    \E h \in Histories :
        /\ h.testPath = <<SegA, SegB, LeafC>>
        /\ h.expectation.testPath = <<SegA, SegB>>
        /\ equalsOrContains(h.expectation.testPath, h.testPath)
        /\ ~equalsOrContains(h.testPath, h.expectation.testPath)
        /\ \E B \in KnownPaths :
               B = <<SegB, LeafC>> /\ ~equalsOrContains(h.testPath, B) /\ ~equalsOrContains(B, h.testPath)

----------------------------------------------------------------------------
(* Who is in the report *)

\* the lines of the report that name the test of h
ListedLines(h) ==
    {l \in 1..Len(report) : report[l].kind = "test" /\ report[l].testPath = h.testPath}

\* the result of h at the newest known revision, as a set: empty if there is none
LatestResults(h) ==
    {h.lastResults[i].outcome : i \in SlotsOf(h, webkitRevisions[1])}

\* the outcome is one the expectation of h takes (a test without expectation should pass)
Accepted(h, outcome) ==
    IF h.expectation = NullExpectation THEN outcome = "Pass"
    ELSE outcome \in h.expectation.expectedOutcomes \/ "Skip" \in h.expectation.expectedOutcomes

\* C13: the report lists a test exactly when its match status at the newest known
\* revision, webkitRevisions[0] after the duplicate cleanup, is false; a test with no
\* result, NoData, Skip or an accepted outcome there is not listed, whatever its older
\* results are.
C13_ListedIffLatestMismatch ==
    pc = "done" => \A h \in Histories :
        /\ ListedLines(h) # {} <=> matchesExpectation(h, webkitRevisions[1]) = "false"
        /\ ListedLines(h) # {} <=>
               \E outcome \in LatestResults(h) :
                   outcome \notin {"NoData", "Skip"} /\ ~Accepted(h, outcome)
        /\ Cardinality(ListedLines(h)) <= 1

\* the newest result is accepted and an older one is a mismatch: the test is not listed
C13_Witness ==
    /\ pc = "done"
    /\ \E h \in Histories :
          /\ h.expectation # NullExpectation
          /\ Len(h.lastResults) = 2
          /\ h.lastResults[1].webkitRevision = webkitRevisions[1]
          /\ Accepted(h, h.lastResults[1].outcome)
          /\ StatusAt(h, 2) = "false"
          /\ ListedLines(h) = {}
    /\ Len(report) = 1

----------------------------------------------------------------------------
(* History loader *)

RECURSIVE SumOfCounts(_)
\* the number of samples the run-length pairs stand for
SumOfCounts(results) ==
    IF results = <<>> THEN 0 ELSE Head(results)[1] + SumOfCounts(Tail(results))

\* the outcome letter of sample i: that of the pair whose run covers i
LetterAt(results, i) ==
    results[CHOOSE p \in 1..Len(results) :
                /\ SumOfCounts(SubSeq(results, 1, p - 1)) < i
                /\ i <= SumOfCounts(SubSeq(results, 1, p))][2]

\* the number of samples of the document's test k that have a known revision
Built(k) ==
    IF SumOfCounts(resultsJson.tests[k].results) < Len(resultsJson.webkitRevision)
    THEN SumOfCounts(resultsJson.tests[k].results)
    ELSE Len(resultsJson.webkitRevision)

\* C14: every history collectTestHistory builds is aligned with the known revisions:
\* result i has revision webkitRevisions[i] and the outcome of sample i of the run-length
\* pairs taken in order, and there are min(sum of the counts, number of known revisions)
\* results; the samples past the known revisions are dropped and nothing is thrown.
C14_IndexAligned ==
    pc = "collect" => \A k \in 1..Len(testHistories) :
        /\ testHistories[k].testPath = resultsJson.tests[k].testPath
        /\ Len(testHistories[k].lastResults) = Built(k)
        /\ \A i \in 1..Built(k) :
               testHistories[k].lastResults[i] =
                   Result(webkitRevisions[i],
                          parseOutcomeString(LetterAt(resultsJson.tests[k].results, i)))
        /\ error = NullMessage

\* two pairs of two samples each on three known revisions: the fourth sample is dropped
C14_Witness ==
    /\ pc = "collect"
    /\ Len(webkitRevisions) = 3
    /\ Len(testHistories) = 2
    /\ resultsJson.tests[1].results = <<<<2, "F">>, <<2, "P">>>>
    /\ testHistories[1].lastResults =
           <<Result(webkitRevisions[1], "Failure"), Result(webkitRevisions[2], "Failure"),
             Result(webkitRevisions[3], "Pass")>>
    /\ Len(testHistories[2].lastResults) = 2

\* the slots cleanDuplicateBuilds keeps: the last one, and each one whose next older
\* neighbour has another revision
KeptSlots ==
    {i \in 1..Len(resultsJson.webkitRevision) :
        i = Len(resultsJson.webkitRevision)
            \/ resultsJson.webkitRevision[i] # resultsJson.webkitRevision[i + 1]}

\* the j-th kept slot, newest first
KeptSlot(j) == CHOOSE i \in KeptSlots : Cardinality({x \in KeptSlots : x < i}) = j - 1

\* C15: cleanDuplicateBuilds removes the newer slot of every two consecutive equal
\* revisions and keeps the oldest; the same slots go from the revision list and from
\* every history, so no two consecutive revisions are equal afterwards, result i of
\* every history still has revision webkitRevisions[i], and the kept slots have the
\* outcomes, paths and expectations they had.
C15_DuplicatesCleaned ==
    Ready =>
        /\ Len(webkitRevisions) = Cardinality(KeptSlots)
        /\ \A j \in 1..Len(webkitRevisions) :
               webkitRevisions[j] = resultsJson.webkitRevision[KeptSlot(j)]
        /\ \A j \in 1..(Len(webkitRevisions) - 1) : webkitRevisions[j] # webkitRevisions[j + 1]
        /\ \A k \in 1..Len(testHistories) :
               /\ Len(testHistories[k].lastResults)
                      = Cardinality({i \in KeptSlots : i <= Built(k)})
               /\ \A j \in 1..Len(testHistories[k].lastResults) :
                      testHistories[k].lastResults[j] =
                          Result(webkitRevisions[j],
                                 parseOutcomeString(LetterAt(resultsJson.tests[k].results,
                                                             KeptSlot(j))))
               /\ testHistories[k].testPath = resultsJson.tests[k].testPath
               /\ testHistories[k].expectation = allExpectations[1]

\* r10 built three times, with F, P, P from the newest down: the oldest slot, a P, is
\* kept; the other history has results in the two newer slots only and loses both
C15_Witness ==
    /\ pc = "report"
    /\ resultsJson.webkitRevision = <<10, 10, 10>>
    /\ webkitRevisions = <<10>>
    /\ resultsJson.tests[1].results = <<<<1, "F">>, <<2, "P">>>>
    /\ testHistories[1].lastResults = <<Result(10, "Pass")>>
    /\ resultsJson.tests[2].results = <<<<1, "N">>, <<1, "X">>>>
    /\ testHistories[2].lastResults = <<>>

----------------------------------------------------------------------------
(* Expectation parser: the lines of a file, read without the parser *)

\* the lines of the first expectation file
FileLines == split(expectationFiles[1], "\n")

\* line n without its comment and without surrounding white space
Content(n) ==
    trim(SubSeq(FileLines[n], 1,
                Least({i \in 1..(Len(FileLines[n]) + 1) :
                          i = Len(FileLines[n]) + 1 \/ FileLines[n][i] = "#"}) - 1))

\* the places where a bracket group that ends the text can open
Opens(text) ==
    {b \in 1..(Len(text) - 2) : text[b] = "[" /\ \A i \in (b + 1)..(Len(text) - 1) : text[i] # "]"}

\* the text ends with a bracket group [ ... ]
HasBracket(text) == text # <<>> /\ text[Len(text)] = "]" /\ Opens(text) # {}

\* the text before the bracket group that ends the text, and the text inside it
Before(text) == trim(SubSeq(text, 1, Least(Opens(text)) - 1))

Inside(text) == trim(SubSeq(text, Least(Opens(text)) + 1, Len(text) - 1))

\* the words of a text: its longest runs of characters that are not white space
WordSet(text) ==
    {SubSeq(text, p[1], p[2]) :
        p \in {q \in (1..Len(text)) \X (1..Len(text)) :
                  /\ q[1] <= q[2]
                  /\ q[1] = 1 \/ text[q[1] - 1] \in Whitespace
                  /\ q[2] = Len(text) \/ text[q[2] + 1] \in Whitespace
                  /\ \A i \in q[1]..q[2] : text[i] \notin Whitespace}}

\* the part of line n that holds the path, the build bracket and the bug references
Entry(n) == IF HasBracket(Content(n)) THEN Before(Content(n)) ELSE Content(n)

\* the names between the outcome brackets of line n
OutcomeWords(n) == IF HasBracket(Content(n)) THEN WordSet(Inside(Content(n))) ELSE {}

\* the parser is past the file without an Error
ParsingDone == pc \in {"read", "collect", "report", "done"}

\* the expectations the parser made of line n
ExpectationsOf(n) == {i \in 1..Len(allExpectations) : allExpectations[i].lineNo = n}

\* the message names line n
Names(message, n) ==
    \E i \in 1..Len(message) :
        /\ i + Len(" at line " \o ToString(n) \o ": ") - 1 <= Len(message)
        /\ SubSeq(message, i, i + Len(" at line " \o ToString(n) \o ": ") - 1)
               = " at line " \o ToString(n) \o ": "

\* the run ended with an Error about line n that starts with the text
FatalAt(n, text) ==
    /\ pc = "fatal"
    /\ Names(error, n)
    /\ Len(text) <= Len(error) /\ SubSeq(error, 1, Len(text)) = text

\* C16: every expectation parseExpectations returns has an accepted set that is not
\* empty and does not hold DumpJSConsoleLogInStdErr; a line whose outcome bracket holds
\* no name but that marker gives {Pass}.
C16_AcceptedSetNotEmpty ==
    /\ \A i \in 1..Len(allExpectations) :
           /\ allExpectations[i].expectedOutcomes # {}
           /\ "DumpJSConsoleLogInStdErr" \notin allExpectations[i].expectedOutcomes
    /\ ParsingDone => \A n \in 1..Len(FileLines) :
           (/\ HasBracket(Content(n))
            /\ Entry(n) # <<>>
            /\ OutcomeWords(n) \subseteq {chars("DumpJSConsoleLogInStdErr")})
               => /\ ExpectationsOf(n) # {}
                  /\ \A i \in ExpectationsOf(n) : allExpectations[i].expectedOutcomes = {"Pass"}

\* a line with the marker alone and a line with the marker next to Pass, both parsed
C16_Witness ==
    /\ ParsingDone
    /\ \E n \in 1..Len(FileLines) :
          /\ OutcomeWords(n) = {chars("DumpJSConsoleLogInStdErr")}
          /\ \E i \in ExpectationsOf(n) : allExpectations[i].expectedOutcomes = {"Pass"}
    /\ \E n \in 1..Len(FileLines) :
          /\ OutcomeWords(n) = {chars("DumpJSConsoleLogInStdErr"), chars("Pass")}
          /\ \E i \in ExpectationsOf(n) : allExpectations[i].expectedOutcomes = {"Pass"}

\* the last word of the entry of line n is its test path; what precedes it
BeforePath(n) ==
    trim(SubSeq(Entry(n), 1,
                Greatest({i \in 0..Len(Entry(n)) : i = 0 \/ Entry(n)[i] \in Whitespace})))

\* the name in the build bracket of line n, if it has one
BuildWords(n) == IF HasBracket(BeforePath(n)) THEN {Inside(BeforePath(n))} ELSE {}

\* line n has text and no outcome bracket at its end
NoOutcomeBracket(n) == Content(n) # <<>> /\ ~HasBracket(Content(n))

UnknownOutcome(n) ==
    \E word \in OutcomeWords(n) : word \notin {chars(TestOutcome[o]) : o \in 1..Len(TestOutcome)}

\* line n has a build bracket with a name that BuildType does not declare
UnknownBuildType(n) ==
    \E word \in BuildWords(n) : word \notin {chars("Debug"), chars("Release")}

\* C18 as stated: once the file has been read, a line with an outcome name that is not
\* a known outcome, or with a build bracket whose name is not a known build type, has
\* made parseExpectations abort with an Error that names the line, and no expectation
\* list has been returned.
C18_Original ==
    pc # "parse" =>
        \A n \in 1..Len(FileLines) : (UnknownOutcome(n) \/ UnknownBuildType(n)) =>
            /\ pc = "fatal"
            /\ allExpectations = <<>>
            /\ \E m \in 1..n : (UnknownOutcome(m) \/ UnknownBuildType(m)) /\ Names(error, m)

\* line n has text, all of it in the outcome bracket: no test path token is left
NoTestPath(n) == Content(n) # <<>> /\ Entry(n) = <<>>

\* the warning about line n has been given
Warned(n) ==
    \E i \in 1..Len(warnings) : warnings[i] = lineMessage("Could not parse test path", n, <<>>)

\* every line with a test path has its one expectation, and the expectations are in
\* the order of the lines
ParsedInOrder ==
    /\ \A m \in 1..Len(FileLines) :
           (Content(m) # <<>> /\ Entry(m) # <<>>) => Cardinality(ExpectationsOf(m)) = 1
    /\ \A i, j \in 1..Len(allExpectations) :
           i < j => allExpectations[i].lineNo < allExpectations[j].lineNo

BugWords(n) ==
    WordSet(IF HasBracket(BeforePath(n)) THEN Before(BeforePath(n)) ELSE BeforePath(n))

\* the word is webkit.org/b/ and a number
BugReference(word) ==
    /\ Len(word) > Len("webkit.org/b/")
    /\ SubSeq(word, 1, Len("webkit.org/b/")) = chars("webkit.org/b/")
    /\ \A i \in (Len("webkit.org/b/") + 1)..Len(word) : word[i] \in Digits

\* the text of line n that is neither outcome bracket, test path, build bracket nor
\* bug reference
Remaining(n) == {word \in BugWords(n) : ~BugReference(word)}

----------------------------------------------------------------------------
(* The process and its output *)

\* the run ended with an uncaught Error
Fatal == pc = "fatal"

\* C21 as stated: in a run that ended with a fatal error nothing of the report has been
\* written to standard output, neither its title nor a line.
C21_Original == Fatal => report = <<>>

\* the identifiers of the contexts
KnownContexts == {"gtk-debug", "gtk-release", "gtk-release-wayland", "wpe-release"}

\* the command line has exactly one argument, a known identifier
GoodCommandLine == Len(argv) = 3 /\ argv[3] \in KnownContexts

\* the process has ended
Exited == pc \in {"usage", "done", "fatal"}

\* the lines of the given texts follow one another in what main() wrote on the stream
WrittenTo(stream, texts) ==
    \E i \in 0..Len(console) :
        /\ i + Len(texts) <= Len(console)
        /\ \A k \in 1..Len(texts) : console[i + k] = Written(stream, texts[k])

ContextList ==
    <<"", "Available contexts:", "  gtk-debug", "  gtk-release", "  gtk-release-wayland",
      "  wpe-release">>

\* C22 as stated: once main() has looked at the command line, a bad one has ended the
\* process with a status that is not 0, the usage text and the list of contexts on
\* standard error and no report; with a good one a process that has ended has written
\* the report to standard output and its status is 0.
C22_Original ==
    pc # "main" =>
        IF ~GoodCommandLine
        THEN /\ Exited /\ exitCode # 0
             /\ report = <<>>
             /\ WrittenTo("stderr", ContextList)
             /\ \A i \in 1..Len(console) : console[i].stream = "stderr"
        ELSE Exited => exitCode = 0 /\ report # <<>>

\* C22, amended: once main() has looked at the command line, a bad one has ended the
\* process with status 1 and no report; the line "Usage: auto-gardener <context-id>"
\* (for a wrong number of arguments) and the list of contexts are on standard output,
\* and only the line "Unknown context: <id>" (for one unknown argument) is on standard
\* error. With a good command line main() writes none of these; a process that has
\* ended has status 0 and has written the report to standard output, or has status 1
\* because an Error ended it.
C22_CommandLine ==
    pc # "main" =>
        IF ~GoodCommandLine
        THEN /\ pc = "usage" /\ exitCode = 1
             /\ report = <<>>
             /\ Len(console) = 1 + Len(ContextList)
             /\ console[1] = IF Len(argv) # 3
                             THEN Written("stdout", "Usage: auto-gardener <context-id>")
                             ELSE Written("stderr", "Unknown context: " \o argv[3])
             /\ WrittenTo("stdout", ContextList)
        ELSE /\ console = <<>>
             /\ pc # "usage"
             /\ pc = "done" => exitCode = 0 /\ report # <<>> /\ report[1].kind = "title"
             /\ pc = "fatal" => exitCode = 1 /\ error # NullMessage

\* an unknown context: one line on standard error, the list on standard output
C22_Witness ==
    /\ pc = "usage"
    /\ argv = Argv(<<"gtk">>)
    /\ console[1] = Written("stderr", "Unknown context: gtk")
    /\ console[5] = Written("stdout", "  gtk-release")
    /\ exitCode = 1

----------------------------------------------------------------------------
(* Round trip of an expectation through its text *)

\* what parseExpectations makes of the text toString gives for expectation i, with the
\* path of the expectation
Reparsed(i) == parseExpectations(toString(allExpectations[i], allExpectations[i].testPath))

RECURSIVE Reverse(_)
Reverse(s) == IF s = <<>> THEN <<>> ELSE Append(Reverse(Tail(s)), Head(s))

\* the text of expectation i parses without Error or warning into one expectation with
\* the same path, accepted outcomes and build type
SameButBugs(i) ==
    /\ Reparsed(i).error = NullMessage
    /\ Reparsed(i).warnings = <<>>
    /\ Len(Reparsed(i).expectations) = 1
    /\ Reparsed(i).expectations[1].testPath = allExpectations[i].testPath
    /\ Reparsed(i).expectations[1].expectedOutcomes = allExpectations[i].expectedOutcomes
    /\ Reparsed(i).expectations[1].buildTypeConstraint = allExpectations[i].buildTypeConstraint

\* C23 as stated: the text toString gives for a parsed expectation parses into an
\* expectation with the same path, accepted outcomes, bug ids and build type.
C23_Original ==
    \A i \in 1..Len(allExpectations) :
        SameButBugs(i) /\ Reparsed(i).expectations[1].bugIds = allExpectations[i].bugIds

\* the accepted outcomes and the build type of expectation i are members of the enums
Members(i) ==
    /\ allExpectations[i].expectedOutcomes \subseteq {TestOutcome[o] : o \in 1..Len(TestOutcome)}
    /\ allExpectations[i].buildTypeConstraint \in {"null", "Debug", "Release"}

\* C23, amended: the text toString gives for a parsed expectation whose accepted
\* outcomes and build type are members of TestOutcome and BuildType parses into an
\* expectation with the same path, accepted outcomes and build type, and with the same
\* bug ids in the opposite order.
C23_RoundTrip ==
    \A i \in 1..Len(allExpectations) : Members(i) =>
        SameButBugs(i) /\ Reparsed(i).expectations[1].bugIds = Reverse(allExpectations[i].bugIds)

\* the line with two bugs and a build type, parsed: bug 12 comes first, its text is
\* webkit.org/b/12 webkit.org/b/7 [ Release ] a/b [ ... ], and that parses to 7, 12
C23_Witness ==
    /\ ParsingDone
    /\ Len(allExpectations) = 1
    /\ allExpectations[1].bugIds = <<12, 7>>
    /\ allExpectations[1].buildTypeConstraint = "Release"
    /\ allExpectations[1].expectedOutcomes = {"Pass", "Failure"}
    /\ Reparsed(1).expectations[1].bugIds = <<7, 12>>
    /\ SubSeq(toString(allExpectations[1], allExpectations[1].testPath), 1, 15)
           = chars("webkit.org/b/12")

----------------------------------------------------------------------------
(* Order of the tests of a group *)

\* the history of the test of a report line (the paths of the tests differ)
HistoryOf(l) == CHOOSE h \in Histories : h.testPath = report[l].testPath

\* the key of the order, as the property words it
DirectoryName(h) == join(SubSeq(h.testPath, 1, Len(h.testPath) - 1), <<"/">>)

BaseName(h) == h.testPath[Len(h.testPath)]

HasBug(h) == getExpectationWithDefault(h).bugIds # <<>>

FirstBug(h) == getExpectationWithDefault(h).bugIds[1]

\* g comes before h by the bug: a greater first bug id, or a bug against none
BugBefore(g, h) == HasBug(g) /\ (~HasBug(h) \/ FirstBug(g) > FirstBug(h))

BugSame(g, h) == (~HasBug(g) /\ ~HasBug(h)) \/ (HasBug(g) /\ HasBug(h) /\ FirstBug(g) = FirstBug(h))

\* g does not come after h in the order of the key
InKeyOrder(g, h) ==
    \/ stringLess(DirectoryName(g), DirectoryName(h))
    \/ /\ DirectoryName(g) = DirectoryName(h)
       /\ \/ BugBefore(g, h)
          \/ BugSame(g, h) /\ ~stringLess(BaseName(h), BaseName(g))

\* one array of values comes before the other in the lexicographic order
LexLess(a, b) ==
    \E i \in 1..Len(a) : valueLess(a[i], b[i]) /\ \A j \in 1..(i - 1) : a[j] = b[j]

\* the key arrays of the tests
SortKeys == {sortKey(h) : h \in Histories}

\* C24 as stated: in the report the tests of one outcome group are in the order of
\* the key (directory name ascending; first bug id descending, tests without bug id
\* after those with one; base name ascending), and compareArrays gives -1, 0 or 1 as
\* the lexicographic comparison of two key arrays of equal length.
C24_Original ==
    /\ pc = "done" =>
           \A i, j \in 1..Len(report) :
               (/\ i < j
                /\ report[i].kind = "test" /\ report[j].kind = "test"
                /\ report[i].outcome = report[j].outcome)
                   => InKeyOrder(HistoryOf(i), HistoryOf(j))
    /\ \A a, b \in SortKeys :
           compareArrays(a, b) = (IF LexLess(a, b) THEN -1 ELSE IF LexLess(b, a) THEN 1 ELSE 0)

----------------------------------------------------------------------------
(* Regression analyzer: which mismatch is reported *)

\* the slots newer than the oldest mismatch that match
GoodAfter(h) == {i \in 1..Len(h.lastResults) : i < OldestMismatch(h) /\ StatusAt(h, i) = "true"}

\* C25: when findFirstFailedRevisionRange returns an exact revision or a range, that
\* revision (the end of the range) is the revision of the oldest slot of the history
\* that mismatches, and no mismatching slot has an older revision, however many
\* matching slots are newer.
C25_OldestMismatchReported ==
    Ready => \A h \in Histories : HasFailurePoint(h) =>
        /\ Mismatches(h) # {}
        /\ FirstFailedRange(h).end = FirstFailure(h)
        /\ \A i \in Mismatches(h) : h.lastResults[i].webkitRevision >= FirstFailedRange(h).end

\* a mismatch in the oldest slot with four matching slots and mismatches after it
C25_Witness ==
    /\ pc = "done"
    /\ \E h \in Histories :
          /\ HasFailurePoint(h)
          /\ OldestMismatch(h) = Len(h.lastResults)
          /\ Cardinality(GoodAfter(h)) >= 4
          /\ Cardinality(Mismatches(h)) >= 3
          /\ FirstFailedRange(h).end = h.lastResults[Len(h.lastResults)].webkitRevision

\* the slots of the history for the known revision next below the oldest mismatch
PrecedingSlots(h) ==
    {i \in 1..Len(h.lastResults) :
        OlderKnown(h) # {} /\ h.lastResults[i].webkitRevision = NextOlderKnown(h)}

\* C26 as stated: when findFirstFailedRevisionRange returns an exact revision R, the
\* history has an entry for the known revision immediately preceding R, and its match
\* status is true.
C26_Original ==
    Ready => \A h \in Histories : FirstFailedRange(h).kind = "revision" =>
        \E i \in PrecedingSlots(h) : StatusAt(h, i) = "true"

\* C26, amended: when findFirstFailedRevisionRange returns an exact revision R, the
\* known revision immediately preceding R is R - 1, and either the history has an entry
\* for it whose match status is true, or the history is shorter than the revision list
\* and has no older entry that matches: then R - 1 is assumed good, its entry having no
\* status (NoData, Skip) or missing.
C26_KnownOrAssumedGood ==
    Ready => \A h \in Histories : FirstFailedRange(h).kind = "revision" =>
        /\ OlderKnown(h) # {}
        /\ NextOlderKnown(h) = FirstFailedRange(h).start - 1
        /\ \/ \E i \in PrecedingSlots(h) : StatusAt(h, i) = "true"
           \/ /\ Len(h.lastResults) < Len(webkitRevisions)
              /\ GoodBefore(h) = {}
              /\ \A i \in PrecedingSlots(h) : StatusAt(h, i) = "null"

\* one Failure at revision 10 and no entry for revision 9: "Failing since r10"
C26_Witness ==
    /\ pc = "done"
    /\ webkitRevisions = <<10, 9>>
    /\ \E h \in Histories :
          /\ h.lastResults = <<Result(10, "Failure")>>
          /\ PrecedingSlots(h) = {}
          /\ FirstFailedRange(h) = ExactRevision(10)
    /\ Printed("Failing since r10")

\* the known revisions decrease strictly
StrictlyDecreasing ==
    \A i, j \in 1..Len(webkitRevisions) : i < j => webkitRevisions[i] > webkitRevisions[j]

\* slot i of the history is the result at known revision i
IndexAligned(h) ==
    /\ Len(h.lastResults) <= Len(webkitRevisions)
    /\ \A i \in 1..Len(h.lastResults) : h.lastResults[i].webkitRevision = webkitRevisions[i]

\* the first mismatch is met with no last-good revision, in a history shorter than the
\* revision list
ShortWithoutLastGood(h) ==
    Mismatches(h) # {} /\ GoodBefore(h) = {} /\ Len(h.lastResults) < Len(webkitRevisions)

\* C27: with a strictly decreasing revision list and index-aligned histories, when the
\* first mismatch is met with no last-good revision in a history shorter than the
\* revision list, a known revision older than the mismatching one exists, so the
\* last-good revision taken from the list is defined; and every range returned has
\* start < end and start = a known revision + 1.
C27_InferredLastGoodDefined ==
    (Ready /\ StrictlyDecreasing) => \A h \in Histories : IndexAligned(h) =>
        /\ ShortWithoutLastGood(h) =>
               /\ findOlderRevision(webkitRevisions, FirstFailure(h)) # NullRevision
               /\ \E i \in 1..Len(webkitRevisions) : webkitRevisions[i] < FirstFailure(h)
               /\ ~FirstFailedRange(h).nan
        /\ FirstFailedRange(h).kind = "range" =>
               /\ ~FirstFailedRange(h).nan
               /\ FirstFailedRange(h).start < FirstFailedRange(h).end
               /\ \E i \in 1..Len(webkitRevisions) :
                      FirstFailedRange(h).start = webkitRevisions[i] + 1

\* one Crash at revision 10, the next known revision being 6: the range r7-10
C27_Witness ==
    /\ pc = "done"
    /\ StrictlyDecreasing
    /\ webkitRevisions = <<10, 6>>
    /\ \E h \in Histories :
          /\ IndexAligned(h)
          /\ ShortWithoutLastGood(h)
          /\ h.lastResults = <<Result(10, "Crash")>>
          /\ FirstFailedRange(h) = Range(7, 10, FALSE)

----------------------------------------------------------------------------
(* The message of a listed test *)

\* the test of h mismatches at the latest revision: the report lists it
ListedTest(h) == matchesExpectation(h, webkitRevisions[1]) = "false"

FailedMessage(h) == constructFirstFailedRevisionMessage(h, webkitRevisions)

\* the message starts with the text
StartsWith(message, text) ==
    Len(text) <= Len(message) /\ SubSeq(message, 1, Len(text)) = text

\* the messages the report prints under the test of h
MessageLines(h) ==
    {report[l].text : l \in {m \in 1..Len(report) :
                                report[m].kind = "message" /\ report[m].testPath = h.testPath}}

\* C28: for a test the report lists, findFirstFailedRevisionRange never returns "never
\* failed"; constructFirstFailedRevisionMessage returns null for it exactly when the
\* first failure is "long ago", and otherwise a message "Failing since ..." or "Flaky
\* since ...", which the report prints under the test.
C28_ListedTestHasFailure ==
    Ready => \A h \in Histories : ListedTest(h) =>
        /\ FirstFailedRange(h) # NeverFailed
        /\ FailedMessage(h) = NullMessage <=> FirstFailedRange(h) = LongAgo
        /\ FailedMessage(h) # NullMessage =>
               StartsWith(FailedMessage(h), "Failing since ")
                   \/ StartsWith(FailedMessage(h), "Flaky since ")
        /\ pc = "done" =>
               /\ ListedLines(h) # {}
               /\ MessageLines(h) = {FailedMessage(h)} \ {NullMessage}

\* a listed test that failed, passed and fails, as long as the revision list: it is
\* listed without message
C28_Witness ==
    /\ pc = "done"
    /\ \E h \in Histories :
          /\ ListedTest(h)
          /\ Len(h.lastResults) = 3
          /\ StatusAt(h, 1) = "false" /\ StatusAt(h, 2) = "true" /\ StatusAt(h, 3) = "false"
          /\ FirstFailedRange(h) = LongAgo
          /\ ListedLines(h) # {}
          /\ MessageLines(h) = {}

----------------------------------------------------------------------------
(* The token functions *)

\* the texts the token functions are tried on: the beginnings of the lines of the file
TokenInputs ==
    UNION {{SubSeq(FileLines[n], 1, k) : k \in 0..Len(FileLines[n])} : n \in 1..Len(FileLines)}

\* word is the last word of the text: no white space in it, at the end of the trimmed
\* text, white space or nothing before it
IsLastWord(word, text) ==
    /\ word # <<>>
    /\ \A i \in 1..Len(word) : word[i] \notin Whitespace
    /\ Len(word) <= Len(trim(text))
    /\ SubSeq(trim(text), Len(trim(text)) - Len(word) + 1, Len(trim(text))) = word
    /\ Len(word) < Len(trim(text)) => trim(text)[Len(trim(text)) - Len(word)] \in Whitespace

\* the text has no white space at its end
NoTrailingSpace(text) == text = <<>> \/ text[Len(text)] \notin Whitespace

\* C29: consumeWordToken gives ("", null) on a line that is empty after trimming; on
\* any other line it gives the last word of the line and a remainder without white
\* space at its end that is shorter than the line; and the bug loop of parseExpectations
\* ends on every line, with nothing left of it.
C29_WordTokenShortens ==
    pc = "read" => \A line \in TokenInputs :
        /\ trim(line) = <<>> => consumeWordToken(line) = <<<<>>, NullToken>>
        /\ trim(line) # <<>> =>
               /\ IsLastWord(consumeWordToken(line)[2], line)
               /\ NoTrailingSpace(consumeWordToken(line)[1])
               /\ Len(consumeWordToken(line)[1]) < Len(line)
        /\ bugLoop(line, <<>>).line = <<>>

\* the file with the line of two bugs is parsed: the loop took webkit.org/b/12, then
\* webkit.org/b/7, and ended
C29_Witness ==
    /\ pc = "read"
    /\ Len(allExpectations) = 1
    /\ allExpectations[1].bugIds = <<12, 7>>
    /\ chars("webkit.org/b/7 webkit.org/b/12 ") \in TokenInputs
    /\ consumeWordToken(chars("webkit.org/b/7 webkit.org/b/12 "))
           = <<chars("webkit.org/b/7"), chars("webkit.org/b/12")>>

\* C30 as stated: on a line that ends with a bracket group consumeBracketedEntityToken
\* gives the text before the group, without white space at its end, and the text inside
\* the group, without white space around it; on any other line the trimmed line and null.
C30_Original ==
    pc = "read" => \A line \in TokenInputs :
        consumeBracketedEntityToken(line) =
            IF HasBracket(trim(line)) THEN <<Before(trim(line)), Inside(trim(line))>>
            ELSE <<trim(line), NullToken>>

\* C30: as stated when a character that is not white space stands inside the group;
\* when the group holds white space only, the text inside is given as one character
\* of white space, the last one before "]".
C30_BracketToken ==
    pc = "read" => \A line \in TokenInputs :
        consumeBracketedEntityToken(line) =
            IF ~HasBracket(trim(line)) THEN <<trim(line), NullToken>>
            ELSE IF Inside(trim(line)) # <<>> THEN <<Before(trim(line)), Inside(trim(line))>>
            ELSE <<Before(trim(line)), <<trim(line)[Len(trim(line)) - 1]>>>>

\* a parsed file has the line with two groups: the last group is taken, with the two
\* spaces between its words and without those around them
C30_Witness ==
    /\ pc = "read"
    /\ chars("webkit.org/b/7 [ Debug ]\ta [ Crash  Timeout ] ") \in TokenInputs
    /\ consumeBracketedEntityToken(chars("webkit.org/b/7 [ Debug ]\ta [ Crash  Timeout ] "))
           = <<chars("webkit.org/b/7 [ Debug ]\ta"), chars("Crash  Timeout")>>

====
